---------------------------- MODULE Spec2Model ----------------------------
(***************************************************************************)
(* A model of the MediScan text-extraction core (tnshq/medical_assistant). *)
(*                                                                         *)
(* Strings are sequences of one-character strings and offsets are          *)
(* zero-based as in Python: the character at offset i of s is s[i+1].      *)
(* Python's None is the value None; a raised exception is Raised.          *)
(*                                                                         *)
(* The repository holds two extractor variants.  Definitions ending in A   *)
(* model src/backend/medicine_extractor.py (the one App.py imports), and   *)
(* definitions ending in B model src/backend-medicine-extractor.py, which  *)
(* consumes the output of src/backend-ocr-processor.py.                    *)
(***************************************************************************)
EXTENDS Integers, Sequences, FiniteSets, TLC

\* neither is a string: a string holds one-character elements only
None == <<"None">>
Raised == <<"Raised">>

\* ------------------------------------------------------------------------
\* Characters and the str methods the code calls
\* ------------------------------------------------------------------------

UpperSeq == <<"A","B","C","D","E","F","G","H","I","J","K","L","M",
              "N","O","P","Q","R","S","T","U","V","W","X","Y","Z">>
LowerSeq == <<"a","b","c","d","e","f","g","h","i","j","k","l","m",
              "n","o","p","q","r","s","t","u","v","w","x","y","z">>
DigitSeq == <<"0","1","2","3","4","5","6","7","8","9">>

UpperCs == {UpperSeq[k] : k \in 1..26}
LowerCs == {LowerSeq[k] : k \in 1..26}
DigitCs == {DigitSeq[k] : k \in 1..10}
AlphaCs == UpperCs \cup LowerCs
WordCs  == AlphaCs \cup DigitCs \cup {"_"}
SpaceCs == {" ", "\n", "\t", "\r"}

LowerMap == [c \in UpperCs |-> LowerSeq[CHOOSE k \in 1..26 : UpperSeq[k] = c]]
UpperMap == [c \in LowerCs |-> UpperSeq[CHOOSE k \in 1..26 : LowerSeq[k] = c]]
DigitMap == [c \in DigitCs |-> (CHOOSE k \in 1..10 : DigitSeq[k] = c) - 1]

LowerChar(c) == IF c \in UpperCs THEN LowerMap[c] ELSE c
UpperChar(c) == IF c \in LowerCs THEN UpperMap[c] ELSE c

\* str.lower()
Lower(s) == [k \in 1..Len(s) |-> LowerChar(s[k])]

\* the slice s[a:b] for 0 <= a, as Python clamps it
Slice(s, a, b) ==
    LET hi == IF b > Len(s) THEN Len(s) ELSE b
    IN  IF a >= hi THEN << >> ELSE SubSeq(s, a + 1, hi)

\* whether t occurs in s at offset i
OccursAt(t, s, i) ==
    /\ i + Len(t) <= Len(s)
    /\ \A k \in 1..Len(t) : s[i + k] = t[k]

\* t in s
Contains(s, t) == \E i \in 0..Len(s) : OccursAt(t, s, i)

\* s.find(t): the lowest offset where t occurs, -1 when it does not
Find(s, t) ==
    IF Contains(s, t)
    THEN CHOOSE i \in 0..Len(s) :
            OccursAt(t, s, i) /\ \A j \in 0..(i - 1) : ~OccursAt(t, s, j)
    ELSE -1

\* str.isdigit()
IsDigitStr(s) == Len(s) > 0 /\ \A k \in 1..Len(s) : s[k] \in DigitCs

\* int(s) for a digit string
RECURSIVE ParseInt(_)
ParseInt(s) ==
    IF Len(s) = 0 THEN 0
    ELSE 10 * ParseInt(SubSeq(s, 1, Len(s) - 1)) + DigitMap[s[Len(s)]]

\* s.strip(cs): drop leading and trailing characters of the set cs
RECURSIVE LStrip(_, _)
LStrip(s, cs) ==
    IF Len(s) > 0 /\ s[1] \in cs THEN LStrip(Tail(s), cs) ELSE s
RECURSIVE RStrip(_, _)
RStrip(s, cs) ==
    IF Len(s) > 0 /\ s[Len(s)] \in cs THEN RStrip(SubSeq(s, 1, Len(s) - 1), cs) ELSE s
Strip(s, cs) == RStrip(LStrip(s, cs), cs)

\* s.split(): the maximal runs of non-whitespace characters
RECURSIVE SplitWs(_, _, _)
SplitWs(s, k, cur) ==
    IF k > Len(s) THEN (IF cur = << >> THEN << >> ELSE << cur >>)
    ELSE IF s[k] \in SpaceCs
         THEN (IF cur = << >> THEN << >> ELSE << cur >>) \o SplitWs(s, k + 1, << >>)
         ELSE SplitWs(s, k + 1, Append(cur, s[k]))
Split(s) == SplitWs(s, 1, << >>)

\* s.split(c) on one separator character: empty pieces are kept
RECURSIVE SplitChr(_, _, _, _)
SplitChr(s, c, k, cur) ==
    IF k > Len(s) THEN << cur >>
    ELSE IF s[k] = c
         THEN << cur >> \o SplitChr(s, c, k + 1, << >>)
         ELSE SplitChr(s, c, k + 1, Append(cur, s[k]))
SplitOn(s, c) == SplitChr(s, c, 1, << >>)

\* ' '.join(ws)
RECURSIVE JoinSp(_)
JoinSp(ws) ==
    IF Len(ws) = 0 THEN << >>
    ELSE IF Len(ws) = 1 THEN ws[1]
    ELSE ws[1] \o <<" ">> \o JoinSp(Tail(ws))

\* s.replace(old, new) for single characters
ReplaceChr(s, old, new) == [k \in 1..Len(s) |-> IF s[k] = old THEN new ELSE s[k]]

\* ------------------------------------------------------------------------
\* Regular expressions (the re module): a backtracking matcher whose result
\* lists the ways to match in the order Python tries them, so that the head
\* of the list is the match Python reports.
\* ------------------------------------------------------------------------

Set(cs)              == [t |-> "set", cs |-> cs]
Str(css)             == [t |-> "str", css |-> css]
NotSet(cs)           == [t |-> "nset", cs |-> cs]
Cat(rs)              == [t |-> "cat", rs |-> rs]
Alt(rs)              == [t |-> "alt", rs |-> rs]
Rep(r, lo, hi, g)    == [t |-> "rep", r |-> r, lo |-> lo, hi |-> hi, g |-> g]
Grp(n, r)            == [t |-> "grp", n |-> n, r |-> r]
WB                   == [t |-> "wb"]
Bol                  == [t |-> "bol"]
Eol                  == [t |-> "eol"]

\* hi = -1 stands for no upper limit
Star(r)     == Rep(r, 0, -1, TRUE)
Plus(r)     == Rep(r, 1, -1, TRUE)
Opt(r)      == Rep(r, 0, 1, TRUE)
LazyStar(r) == Rep(r, 0, -1, FALSE)
LazyPlus(r) == Rep(r, 1, -1, FALSE)

\* a character class under re.IGNORECASE
CI(cs) == cs \cup {LowerChar(c) : c \in cs} \cup {UpperChar(c) : c \in cs}

\* a literal string: one character class per character
Lit(s)   == Str([k \in 1..Len(s) |-> {s[k]}])
LitCI(s) == Str([k \in 1..Len(s) |-> CI({s[k]})])

Digit  == Set(DigitCs)            \* \d
Space  == Set(SpaceCs)            \* \s
Dot    == NotSet({"\n"})          \* .
DotAll == NotSet({})              \* . under re.DOTALL

NoCaps == << <<-1, -1>>, <<-1, -1>>, <<-1, -1>> >>

IsWordAt(s, i) == i >= 0 /\ i < Len(s) /\ s[i + 1] \in WordCs
\* \b at offset i
WordBoundary(s, i) == IsWordAt(s, i - 1) # IsWordAt(s, i)

\* whether the character at offset j of s belongs to the class r
InClass(r, s, j) == IF r.t = "set" THEN s[j + 1] \in r.cs ELSE s[j + 1] \notin r.cs

\* the length of the longest run of characters of the class r from offset i
RunLength(r, s, i) ==
    LET stops == {k \in 0..(Len(s) - i) : i + k = Len(s) \/ ~InClass(r, s, i + k)}
    IN  CHOOSE k \in stops : \A j \in stops : k <= j

\* a repetition of one character class: every length from r.lo up to the
\* run (or r.hi), the longest first when greedy and the shortest first when
\* lazy
RunEnds(r, run, i, caps) ==
    IF (IF r.hi = -1 \/ run < r.hi THEN run ELSE r.hi) < r.lo THEN << >>
    ELSE [k \in 1..((IF r.hi = -1 \/ run < r.hi THEN run ELSE r.hi) - r.lo + 1) |->
            << i + (IF r.g THEN (IF r.hi = -1 \/ run < r.hi THEN run ELSE r.hi) - k + 1
                    ELSE r.lo + k - 1), caps >>]

MRun(r, s, i, caps) == RunEnds(r, RunLength(r.r, s, i), i, caps)

\* xs without the repeated elements, the first occurrence of each kept
FirstOccurrences(xs) ==
    LET keep == {k \in 1..Len(xs) : \A j \in 1..(k - 1) : xs[j] # xs[k]}
        Nth(n) == CHOOSE k \in keep : Cardinality({j \in keep : j < k}) = n - 1
    IN  [n \in 1..Cardinality(keep) |-> xs[Nth(n)]]

\* the concatenation of a list of lists
RECURSIVE Flatten(_)
Flatten(ls) == IF Len(ls) = 0 THEN << >> ELSE ls[1] \o Flatten(Tail(ls))

\* the matches of a group, its span recorded in the captures
Capture(inner, n, i) ==
    [k \in 1..Len(inner) |->
        << inner[k][1], [inner[k][2] EXCEPT ![n] = <<i, inner[k][1]>>] >>]

\* one more repetition and no more repetition, in the order they are tried
Ordered(more, stop, greedy) == IF greedy THEN more \o stop ELSE stop \o more

\* a repetition after one of its iterations
OneLess(r) ==
    Rep(r.r, IF r.lo > 0 THEN r.lo - 1 ELSE 0, IF r.hi = -1 THEN -1 ELSE r.hi - 1, r.g)

RECURSIVE M(_, _, _, _)
RECURSIVE Continue(_, _, _)

\* the matches of r in s starting at offset i: a list of <<end, captures>>
M(r, s, i, caps) ==
    CASE r.t = "set"  -> IF i < Len(s) /\ s[i + 1] \in r.cs
                         THEN << <<i + 1, caps>> >> ELSE << >>
      [] r.t = "nset" -> IF i < Len(s) /\ s[i + 1] \notin r.cs
                         THEN << <<i + 1, caps>> >> ELSE << >>
      [] r.t = "str"  -> IF /\ i + Len(r.css) <= Len(s)
                            /\ \A k \in 1..Len(r.css) : s[i + k] \in r.css[k]
                         THEN << <<i + Len(r.css), caps>> >> ELSE << >>
      [] r.t = "cat"  -> IF Len(r.rs) = 0 THEN << <<i, caps>> >>
                         ELSE Continue(M(r.rs[1], s, i, caps), Cat(Tail(r.rs)), s)
      [] r.t = "alt"  -> Flatten([k \in 1..Len(r.rs) |-> M(r.rs[k], s, i, caps)])
      [] r.t = "rep"  -> IF r.r.t \in {"set", "nset"} THEN MRun(r, s, i, caps)
                         ELSE FirstOccurrences(Ordered(
                                IF r.hi = 0 THEN << >>
                                ELSE Continue(M(r.r, s, i, caps), OneLess(r), s),
                                IF r.lo = 0 THEN << <<i, caps>> >> ELSE << >>,
                                r.g))
      [] r.t = "grp"  -> Capture(M(r.r, s, i, caps), r.n, i)
      [] r.t = "wb"   -> IF WordBoundary(s, i) THEN << <<i, caps>> >> ELSE << >>
      [] r.t = "bol"  -> IF i = 0 THEN << <<i, caps>> >> ELSE << >>
      [] r.t = "eol"  -> IF i = Len(s) \/ (i = Len(s) - 1 /\ s[Len(s)] = "\n")
                         THEN << <<i, caps>> >> ELSE << >>

\* the matches of rest from each of the matches found so far
Continue(heads, rest, s) ==
    Flatten([h \in 1..Len(heads) |-> M(rest, s, heads[h][1], heads[h][2])])

NoMatch == [ok |-> FALSE, st |-> -1, en |-> -1, caps |-> NoCaps]

\* the match Python reports: the first of the list
FirstOf(ms, i) ==
    IF Len(ms) = 0 THEN NoMatch
    ELSE [ok |-> TRUE, st |-> i, en |-> ms[1][1], caps |-> ms[1][2]]

\* pattern.match(s, i): the match starting exactly at offset i
MatchAt(r, s, i) == FirstOf(M(r, s, i, NoCaps), i)

\* of the matches at the offsets of the domain, the one at the lowest offset
Leftmost(at) ==
    IF \A j \in DOMAIN at : ~at[j].ok THEN NoMatch
    ELSE at[CHOOSE j \in DOMAIN at : at[j].ok /\ \A h \in DOMAIN at : at[h].ok => j <= h]

\* pattern.search(s, i): the match at the first offset from i on where the
\* pattern matches
SearchFrom(r, s, i) == Leftmost([j \in i..Len(s) |-> MatchAt(r, s, j)])

Search(r, s) == SearchFrom(r, s, 0)

\* the successive non-overlapping matches of r in s (re.finditer)
RECURSIVE FindIter(_, _, _)
RECURSIVE MatchThenRest(_, _, _)
FindIter(r, s, i) == MatchThenRest(SearchFrom(r, s, i), r, s)

MatchThenRest(m, r, s) ==
    IF ~m.ok THEN << >>
    ELSE << m >> \o FindIter(r, s, IF m.en > m.st THEN m.en ELSE m.en + 1)

\* the first match among the patterns from the k-th on, NoMatch when none
\* of them matches
RECURSIVE SearchFirst(_, _, _)
RECURSIVE OrNext(_, _, _, _)
SearchFirst(pats, k, s) ==
    IF k > Len(pats) THEN NoMatch ELSE OrNext(Search(pats[k], s), pats, k, s)

OrNext(m, pats, k, s) == IF m.ok THEN m ELSE SearchFirst(pats, k + 1, s)

\* the text of the whole match / of group n
Group0(s, m)   == Slice(s, m.st, m.en)
Group(s, m, n) == Slice(s, m.caps[n][1], m.caps[n][2])

\* the texts of the matches: of the whole match for n = 0, of group n otherwise
Groups(s, ms, n) ==
    [k \in 1..Len(ms) |-> IF n = 0 THEN Group0(s, ms[k]) ELSE Group(s, ms[k], n)]

\* re.findall for a pattern without groups / with exactly one group
FindAll0(r, s) == Groups(s, FindIter(r, s, 0), 0)
FindAll1(r, s) == Groups(s, FindIter(r, s, 0), 1)


\* ------------------------------------------------------------------------
\* Calendar dates: datetime, strptime and strftime
\* ------------------------------------------------------------------------

IsLeap(y) == (y % 4 = 0 /\ y % 100 # 0) \/ y % 400 = 0

DaysInMonth(y, m) ==
    IF m = 2 THEN (IF IsLeap(y) THEN 29 ELSE 28)
    ELSE IF m \in {4, 6, 9, 11} THEN 30 ELSE 31

\* datetime(y, m, d) is constructed, and does not raise ValueError
ValidDate(y, m, d) ==
    /\ y >= 1 /\ y <= 9999
    /\ m >= 1 /\ m <= 12
    /\ d >= 1 /\ d <= DaysInMonth(y, m)

\* the month names of the C locale, lower case; %b takes their first three letters
MonthNames ==
    << <<"j","a","n","u","a","r","y">>,
       <<"f","e","b","r","u","a","r","y">>,
       <<"m","a","r","c","h">>,
       <<"a","p","r","i","l">>,
       <<"m","a","y">>,
       <<"j","u","n","e">>,
       <<"j","u","l","y">>,
       <<"a","u","g","u","s","t">>,
       <<"s","e","p","t","e","m","b","e","r">>,
       <<"o","c","t","o","b","e","r">>,
       <<"n","o","v","e","m","b","e","r">>,
       <<"d","e","c","e","m","b","e","r">> >>

MonthAbbr(k) == SubSeq(MonthNames[k], 1, 3)

\* n as decimal digits, zero-padded to width w
RECURSIVE Digits(_, _)
Digits(n, w) ==
    IF w <= 1 /\ n < 10 THEN << DigitSeq[n + 1] >>
    ELSE Append(Digits(n \div 10, w - 1), DigitSeq[(n % 10) + 1])

\* dt.strftime('%Y-%m-%d')
Strftime(dt) == Digits(dt.y, 4) \o <<"-">> \o Digits(dt.m, 2) \o <<"-">> \o Digits(dt.d, 2)

\* the regular expression _strptime builds for one directive
DirD == Alt(<< Cat(<<Set({"3"}), Set({"0","1"})>>),
               Cat(<<Set({"1","2"}), Digit>>),
               Cat(<<Set({"0"}), Set(DigitCs \ {"0"})>>),
               Set(DigitCs \ {"0"}),
               Cat(<<Set({" "}), Set(DigitCs \ {"0"})>>) >>)
DirM == Alt(<< Cat(<<Set({"1"}), Set({"0","1","2"})>>),
               Cat(<<Set({"0"}), Set(DigitCs \ {"0"})>>),
               Set(DigitCs \ {"0"}) >>)
DirY4 == Cat(<<Digit, Digit, Digit, Digit>>)
DirY2 == Cat(<<Digit, Digit>>)
DirB3 == Alt([k \in 1..12 |-> LitCI(MonthAbbr(k))])
DirBFull == Alt([k \in 1..12 |-> LitCI(MonthNames[k])])

DirRegex(d) ==
    CASE d = "%d" -> DirD
      [] d = "%m" -> DirM
      [] d = "%Y" -> DirY4
      [] d = "%y" -> DirY2
      [] d = "%b" -> DirB3
      [] d = "%B" -> DirBFull

IsDirective(x) == x \in {"%d", "%m", "%Y", "%y", "%b", "%B"}

\* the k-th item of a format is its n-th directive
DirIndex(fmt, k) == Cardinality({j \in 1..k : IsDirective(fmt[j])})

\* a format is a list of directives and literal characters; a blank of the
\* format matches any run of whitespace
FormatRegex(fmt) ==
    Cat([k \in 1..Len(fmt) |->
            IF IsDirective(fmt[k]) THEN Grp(DirIndex(fmt, k), DirRegex(fmt[k]))
            ELSE IF fmt[k] = " " THEN Plus(Space)
            ELSE Set({fmt[k]})])

\* the text matched by directive d of the format, None when the format has none
DirText(fmt, s, m, d) ==
    IF \E k \in 1..Len(fmt) : fmt[k] = d
    THEN Group(s, m, DirIndex(fmt, CHOOSE k \in 1..Len(fmt) : fmt[k] = d))
    ELSE None

MonthOfName(nm, full) ==
    CHOOSE k \in 1..12 :
        Lower(nm) = (IF full THEN MonthNames[k] ELSE MonthAbbr(k))

\* what a date computation yields where Python raises ValueError
NoDate == [y |-> 0, m |-> 0, d |-> 0]

\* the year, month and day _strptime reads from the matched directives
YearOfMatch(fmt, s, m) ==
    IF DirText(fmt, s, m, "%Y") # None THEN ParseInt(DirText(fmt, s, m, "%Y"))
    ELSE IF DirText(fmt, s, m, "%y") # None
         THEN (IF ParseInt(DirText(fmt, s, m, "%y")) <= 68
               THEN 2000 + ParseInt(DirText(fmt, s, m, "%y"))
               ELSE 1900 + ParseInt(DirText(fmt, s, m, "%y")))
         ELSE 1900

MonthOfMatch(fmt, s, m) ==
    IF DirText(fmt, s, m, "%m") # None THEN ParseInt(DirText(fmt, s, m, "%m"))
    ELSE IF DirText(fmt, s, m, "%b") # None THEN MonthOfName(DirText(fmt, s, m, "%b"), FALSE)
    ELSE IF DirText(fmt, s, m, "%B") # None THEN MonthOfName(DirText(fmt, s, m, "%B"), TRUE)
    ELSE 1

DayOfMatch(fmt, s, m) ==
    IF DirText(fmt, s, m, "%d") # None THEN ParseInt(Strip(DirText(fmt, s, m, "%d"), {" "}))
    ELSE 1

\* datetime(year, month, day), NoDate for ValueError
DateOrNone(year, month, day) ==
    IF ValidDate(year, month, day) THEN [y |-> year, m |-> month, d |-> day] ELSE NoDate

\* the date of a match of the format's regular expression, which must cover
\* the whole string
DateOfMatch(m, s, fmt) ==
    IF ~m.ok \/ m.en # Len(s) THEN NoDate
    ELSE DateOrNone(YearOfMatch(fmt, s, m), MonthOfMatch(fmt, s, m), DayOfMatch(fmt, s, m))

\* datetime.strptime(s, fmt): a date [y, m, d], or NoDate for ValueError
Strptime(s, fmt) == DateOfMatch(MatchAt(FormatRegex(fmt), s, 0), s, fmt)


\* ------------------------------------------------------------------------
\* MedicineExtractor._normalize_date, both variants
\* ------------------------------------------------------------------------

DateFormatsB ==
    << <<"%d","/","%m","/","%Y">>, <<"%d","-","%m","-","%Y">>,
       <<"%d","/","%m","/","%y">>, <<"%d","-","%m","-","%y">>,
       <<"%m","/","%d","/","%Y">>, <<"%m","-","%d","-","%Y">>,
       <<"%Y","-","%m","-","%d">>, <<"%Y","/","%m","/","%d">>,
       <<"%d"," ","%b"," ","%Y">>, <<"%d"," ","%B"," ","%Y">>,
       <<"%b"," ","%d"," ","%Y">>, <<"%B"," ","%d"," ","%Y">> >>

DateFormatsA ==
    << <<"%m","/","%Y">>, <<"%m","-","%Y">>,
       <<"%m","/","%d","/","%Y">>, <<"%d","/","%m","/","%Y">>,
       <<"%Y","-","%m","-","%d">> >>

\* years below this are taken for two-digit-year artefacts and moved up a century
CenturyFloor == 1950
\* the regex fallback reads a year below this as 20yy ...
PivotYear == 50
\* ... and any other year below this as 19yy
TwoDigitLimit == 100

\* the adjustment of a date parsed by a format: date_obj.replace(year = year + 100)
\* raises ValueError when the new date does not exist
AdjustCenturyB(dt) ==
    IF dt = NoDate THEN NoDate
    ELSE IF dt.y < CenturyFloor
         THEN (IF ValidDate(dt.y + 100, dt.m, dt.d)
               THEN [dt EXCEPT !.y = dt.y + 100] ELSE NoDate)
         ELSE dt

\* the loop over date_formats, from format k on: the first format that parses
\* and survives the century adjustment gives the result
RECURSIVE TryFormatsB(_, _)
RECURSIVE FormattedOrNextB(_, _, _)
TryFormatsB(s, k) ==
    IF k > Len(DateFormatsB) THEN None
    ELSE FormattedOrNextB(AdjustCenturyB(Strptime(s, DateFormatsB[k])), s, k)

FormattedOrNextB(dt, s, k) ==
    IF dt = NoDate THEN TryFormatsB(s, k + 1) ELSE Strftime(dt)

\* (\d{1,2})[/-](\d{1,2})[/-](\d{2,4})
FallbackDateRe ==
    Cat(<< Grp(1, Rep(Digit, 1, 2, TRUE)), Set({"/", "-"}),
           Grp(2, Rep(Digit, 1, 2, TRUE)), Set({"/", "-"}),
           Grp(3, Rep(Digit, 2, 4, TRUE)) >>)

FallbackYearB(y) ==
    IF y < PivotYear THEN y + 2000
    ELSE IF y < TwoDigitLimit THEN y + 1900
    ELSE y

\* the three numbers of a match of the fallback expression: day, month, year
FallbackFields(date_str, m) ==
    [day   |-> ParseInt(Group(date_str, m, 1)),
     month |-> ParseInt(Group(date_str, m, 2)),
     year  |-> FallbackYearB(ParseInt(Group(date_str, m, 3)))]

\* the date of the fallback fields without the retry with day and month swapped
DayFirstOnly(f) ==
    IF ValidDate(f.year, f.month, f.day)
    THEN Strftime([y |-> f.year, m |-> f.month, d |-> f.day])
    ELSE None

\* the date of the fallback fields: day first, then day and month swapped
DayFirstThenSwapped(f) ==
    IF ValidDate(f.year, f.month, f.day)
    THEN Strftime([y |-> f.year, m |-> f.month, d |-> f.day])
    ELSE IF ValidDate(f.year, f.day, f.month)
         THEN Strftime([y |-> f.year, m |-> f.day, d |-> f.month])
         ELSE None

\* the regex fallback on a match of the fallback expression
FallbackOfMatch(date_str, m) ==
    IF ~m.ok THEN None ELSE DayFirstThenSwapped(FallbackFields(date_str, m))

\* the regex fallback of _normalize_date
FallbackDateB(date_str) == FallbackOfMatch(date_str, Search(FallbackDateRe, date_str))

\* the result of the formats if there is one, of the fallback otherwise
FormatsThenFallback(byFormat, date_str) ==
    IF byFormat # None THEN byFormat ELSE FallbackDateB(date_str)

NormalizeDateB(date_str) ==
    IF date_str = None \/ date_str = << >> THEN None
    ELSE FormatsThenFallback(TryFormatsB(Strip(date_str, SpaceCs), 1), date_str)

RECURSIVE TryFormatsA(_, _)
RECURSIVE FormattedOrNextA(_, _, _)
TryFormatsA(s, k) ==
    IF k > Len(DateFormatsA) THEN s
    ELSE FormattedOrNextA(Strptime(s, DateFormatsA[k]), s, k)

FormattedOrNextA(dt, s, k) ==
    IF dt = NoDate THEN TryFormatsA(s, k + 1) ELSE Strftime(dt)

NormalizeDateA(date_str) ==
    IF date_str = None \/ date_str = << >> THEN << >>
    ELSE TryFormatsA(date_str, 1)


\* ------------------------------------------------------------------------
\* OCRProcessor (src/backend-ocr-processor.py): cleaning and structuring
\* ------------------------------------------------------------------------

\* the characters clean_text replaces; the last key of the table is stored in
\* the source as the two characters U+0E22 U+0E07
Replacements == << <<"0", "O">>, <<"1", "I">>, <<"|", "I">> >>
MisencodedKey == <<"U+0E22", "U+0E07">>

\* word.replace(key, new) for the two-character key
RECURSIVE ReplacePair(_, _, _)
ReplacePair(s, key, new) ==
    IF Len(s) < 2 THEN s
    ELSE IF s[1] = key[1] /\ s[2] = key[2]
         THEN <<new>> \o ReplacePair(SubSeq(s, 3, Len(s)), key, new)
         ELSE <<s[1]>> \o ReplacePair(Tail(s), key, new)

\* ^\d+[-/]\d+[-/]\d+$
DateShapeRe ==
    Cat(<< Bol, Plus(Digit), Set({"-", "/"}), Plus(Digit), Set({"-", "/"}),
           Plus(Digit), Eol >>)

RECURSIVE ApplyReplacements(_, _)
ApplyReplacements(word, k) ==
    IF k > Len(Replacements) THEN ReplacePair(word, MisencodedKey, "S")
    ELSE ApplyReplacements(ReplaceChr(word, Replacements[k][1], Replacements[k][2]), k + 1)

CleanWord(word) ==
    IF ~MatchAt(DateShapeRe, word, 0).ok /\ ~IsDigitStr(word)
    THEN ApplyReplacements(word, 1)
    ELSE word

\* OCRProcessor.clean_text
CleanText(text) ==
    LET words == Split(JoinSp(Split(text)))
    IN  JoinSp([k \in 1..Len(words) |-> CleanWord(words[k])])

\* \b[A-Z][a-z]+(?:[-\s][A-Z][a-z]+)*\b
CapitalizedRunRe ==
    Cat(<< WB, Set(UpperCs), Plus(Set(LowerCs)),
           Star(Cat(<< Set({"-"} \cup SpaceCs), Set(UpperCs), Plus(Set(LowerCs)) >>)),
           WB >>)
\* \b[A-Z]{2,}(?:[a-z]+)*\b
AllCapsRe ==
    Cat(<< WB, Rep(Set(UpperCs), 2, -1, TRUE), Star(Plus(Set(LowerCs))), WB >>)

NamePatterns == << CapitalizedRunRe, AllCapsRe >>

Exclusions ==
    { <<"t","a","b","l","e","t">>, <<"t","a","b","l","e","t","s">>, <<"c","a","p","s","u","l","e">>, <<"c","a","p","s","u","l","e","s">>, <<"s","y","r","u","p">>, <<"s","u","s","p","e","n","s","i","o","n">>,
      <<"i","n","j","e","c","t","i","o","n">>, <<"c","r","e","a","m">>, <<"o","i","n","t","m","e","n","t">>, <<"g","e","l">>, <<"d","r","o","p","s">>, <<"p","o","w","d","e","r">>,
      <<"e","x","p","i","r","y">>, <<"e","x","p">>, <<"m","f","g">>, <<"m","a","n","u","f","a","c","t","u","r","e","d">>, <<"b","a","t","c","h">>, <<"l","o","t">>, <<"c","o","m","p","a","n","y">>,
      <<"p","h","a","r","m","a">>, <<"p","h","a","r","m","a","c","e","u","t","i","c","a","l","s">>, <<"l","t","d">>, <<"l","i","m","i","t","e","d">>, <<"p","v","t">>, <<"p","r","i","v","a","t","e">>,
      <<"i","n","d","i","a">>, <<"m","u","m","b","a","i">>, <<"d","e","l","h","i">>, <<"b","a","n","g","a","l","o","r","e">>, <<"h","y","d","e","r","a","b","a","d">>, <<"c","h","e","n","n","a","i">>,
      <<"u","s","e">>, <<"b","e","f","o","r","e">>, <<"d","a","t","e">>, <<"k","e","e","p">>, <<"s","t","o","r","e">>, <<"t","e","m","p","e","r","a","t","u","r","e">>, <<"r","o","o","m">>,
      <<"t","h","i","s">>, <<"t","h","a","t">>, <<"w","i","t","h">>, <<"f","r","o","m">>, <<"u","n","d","e","r">>, <<"a","b","o","v","e">>, <<"b","e","l","o","w">> }

\* the number of candidate names extract_medicine_names returns at most
MaxCandidates == 5

RomanRe == Cat(<< Bol, Plus(Set({"I", "V", "X"})), Eol >>)

\* the filter of extract_medicine_names on one match
KeepName(match) ==
    /\ Len(match) >= 3
    /\ Lower(match) \notin Exclusions
    /\ ~IsDigitStr(match)
    /\ ~MatchAt(RomanRe, match, 0).ok

\* the elements of xs the predicate keeps, in order
RECURSIVE FilterNames(_)
FilterNames(xs) ==
    IF Len(xs) = 0 THEN << >>
    ELSE (IF KeepName(xs[1]) THEN << xs[1] >> ELSE << >>) \o FilterNames(Tail(xs))

\* "remove duplicates while preserving order", case-insensitively
RECURSIVE UniqueLower(_, _)
UniqueLower(xs, seen) ==
    IF Len(xs) = 0 THEN << >>
    ELSE IF Lower(xs[1]) \in seen THEN UniqueLower(Tail(xs), seen)
         ELSE << xs[1] >> \o UniqueLower(Tail(xs), seen \cup {Lower(xs[1])})

\* the matches of all patterns, pattern by pattern
RECURSIVE FindAllOf0(_, _, _)
FindAllOf0(pats, k, text) ==
    IF k > Len(pats) THEN << >>
    ELSE FindAll0(pats[k], text) \o FindAllOf0(pats, k + 1, text)
RECURSIVE FindAllOf1(_, _, _)
FindAllOf1(pats, k, text) ==
    IF k > Len(pats) THEN << >>
    ELSE FindAll1(pats[k], text) \o FindAllOf1(pats, k + 1, text)

\* the first n elements: xs[:n]
Take(xs, n) == IF Len(xs) <= n THEN xs ELSE SubSeq(xs, 1, n)

\* all filtered and deduplicated matches, before the cut to five
AllNameCandidates(text) == UniqueLower(FilterNames(FindAllOf0(NamePatterns, 1, text)), {})

\* OCRProcessor.extract_medicine_names
ExtractMedicineNames(text) == Take(AllNameCandidates(text), MaxCandidates)

\* list(set(xs)): the distinct elements of xs in the iteration order of a
\* set of strings, which depends on the process's string-hash seed.  The
\* order is modelled as the seed-th permutation of the distinct elements.
RECURSIVE Dedup(_, _)
Dedup(xs, seen) ==
    IF Len(xs) = 0 THEN << >>
    ELSE IF xs[1] \in seen THEN Dedup(Tail(xs), seen)
         ELSE << xs[1] >> \o Dedup(Tail(xs), seen \cup {xs[1]})

RECURSIVE Permute(_, _)
Permute(l, k) ==
    IF Len(l) <= 1 THEN l
    ELSE LET i == (k % Len(l)) + 1
             rest == SubSeq(l, 1, i - 1) \o SubSeq(l, i + 1, Len(l))
         IN  << l[i] >> \o Permute(rest, k \div Len(l))

ListOfSet(xs, seed) == Permute(Dedup(xs, {}), seed)

D12 == Rep(Digit, 1, 2, TRUE)
D4  == Rep(Digit, 4, 4, TRUE)
DateSep == Set({"-", "/"})
Letters39 == Rep(Set(AlphaCs), 3, 9, TRUE)

\* the five date patterns of extract_dates, in their order
DatePatterns ==
    << Cat(<< WB, Grp(1, Cat(<< D12, DateSep, D12, DateSep, D4 >>)), WB >>),
       Cat(<< WB, Grp(1, Cat(<< D12, DateSep, D12, DateSep, Rep(Digit, 2, 2, TRUE) >>)), WB >>),
       Cat(<< WB, Grp(1, Cat(<< D12, DateSep, D4 >>)), WB >>),
       Cat(<< WB, Grp(1, Cat(<< Letters39, Plus(Space), D12, Opt(Set({","})),
                                Star(Space), D4 >>)), WB >>),
       Cat(<< WB, Grp(1, Cat(<< D12, Plus(Space), Letters39, Plus(Space), D4 >>)), WB >>) >>

ExpiryWords == { <<"e","x","p">>, <<"e","x","p","i","r","y">>, <<"e","x","p","i","r","e","s">>, <<"u","s","e"," ","b","y">>, <<"b","e","s","t"," ","b","e","f","o","r","e">> }
MfgWords    == { <<"m","f","g">>, <<"m","a","n","u","f","a","c","t","u","r","e","d">>, <<"m","f","d">>, <<"p","r","o","d","u","c","t","i","o","n">> }

\* the number of characters of context looked at on each side of a date
ContextWidth == 20

\* the context extract_dates looks at for a date string: the text around the
\* first place where the string occurs
DateContext(text, date) ==
    LET date_index == Find(Lower(text), Lower(date))
        from == IF date_index - ContextWidth > 0 THEN date_index - ContextWidth ELSE 0
    IN  Lower(Slice(text, from, date_index + Len(date) + ContextWidth))

ClassifyDate(text, date) ==
    LET context == DateContext(text, date)
    IN  IF \E w \in ExpiryWords : Contains(context, w) THEN "expiry"
        ELSE IF \E w \in MfgWords : Contains(context, w) THEN "manufacturing"
        ELSE "other"

\* the dates of one class, in the order they were found
RECURSIVE DatesOfClass(_, _, _)
DatesOfClass(text, dates, class) ==
    IF Len(dates) = 0 THEN << >>
    ELSE (IF ClassifyDate(text, dates[1]) = class THEN << dates[1] >> ELSE << >>)
            \o DatesOfClass(text, Tail(dates), class)

\* the dates found, sorted into the three lists of extract_dates
DatesByClass(text, all_dates, seed) ==
    [expiry        |-> ListOfSet(DatesOfClass(text, all_dates, "expiry"), seed),
     manufacturing |-> ListOfSet(DatesOfClass(text, all_dates, "manufacturing"), seed),
     other         |-> ListOfSet(DatesOfClass(text, all_dates, "other"), seed)]

\* OCRProcessor.extract_dates
ExtractDates(text, seed) == DatesByClass(text, FindAllOf1(DatePatterns, 1, text), seed)

Spaces == Star(Space)
Number == Plus(Digit)
Decimal == Cat(<< Plus(Digit), Opt(Cat(<< Set({"."}), Plus(Digit) >>)) >>)

\* the eight dosage patterns of extract_dosages, in their order
DosagePatterns ==
    << Cat(<< WB, Number, Spaces, LitCI(<<"m","g">>), WB >>),
       Cat(<< WB, Number, Spaces, LitCI(<<"m","c","g">>), WB >>),
       Cat(<< WB, Number, Spaces, LitCI(<<"g">>), WB >>),
       Cat(<< WB, Number, Spaces, LitCI(<<"m","l">>), WB >>),
       Cat(<< WB, Number, Spaces, LitCI(<<"i","u">>), WB >>),
       Cat(<< WB, Number, Spaces, LitCI(<<"u","n","i","t">>), Opt(Set(CI({"s"}))), WB >>),
       Cat(<< WB, Decimal, Spaces, LitCI(<<"m","g","/","m","l">>), WB >>),
       Cat(<< WB, Decimal, Spaces, Set({"%"}), WB >>) >>

\* OCRProcessor.extract_dosages
ExtractDosages(text, seed) == ListOfSet(FindAllOf0(DosagePatterns, 1, text), seed)

BatchValue == Plus(Set(CI(UpperCs) \cup DigitCs \cup {"-"}))
SpaceOrColon == Plus(Set(SpaceCs \cup {":"}))

\* the three batch-number patterns of extract_batch_numbers
BatchPatterns ==
    << Cat(<< Alt(<< LitCI(<<"b","a","t","c","h">>), LitCI(<<"l","o","t">>), LitCI(<<"b",".","n","o">>), LitCI(<<"l",".","n","o">>) >>),
              SpaceOrColon, Grp(1, BatchValue) >>),
       Cat(<< WB, LitCI(<<"b","a","t","c","h">>), SpaceOrColon, Grp(1, BatchValue), WB >>),
       Cat(<< WB, LitCI(<<"l","o","t">>), SpaceOrColon, Grp(1, BatchValue), WB >>) >>

\* OCRProcessor.extract_batch_numbers
ExtractBatchNumbers(text, seed) == ListOfSet(FindAllOf1(BatchPatterns, 1, text), seed)

AlnumSpace == Set(AlphaCs \cup DigitCs \cup SpaceCs)
AlnumPunct == Set(AlphaCs \cup DigitCs \cup SpaceCs \cup {",", ".", "-"})

\* the three manufacturer patterns of extract_manufacturer
ManufacturerPatternsB ==
    << Cat(<< Alt(<< LitCI(<<"m","a","n","u","f","a","c","t","u","r","e","d"," ","b","y">>), LitCI(<<"m","f","g"," ","b","y">>), LitCI(<<"c","o","m","p","a","n","y">>) >>),
              SpaceOrColon, Grp(1, LazyPlus(AlnumPunct)),
              Alt(<< Set({"\n"}), Eol, Set({","}) >>) >>),
       Grp(1, Cat(<< Plus(AlnumSpace),
                     Alt(<< LitCI(<<"p","h","a","r","m","a">>), LitCI(<<"p","h","a","r","m","a","c","e","u","t","i","c","a","l","s">>), LitCI(<<"l","t","d">>),
                            LitCI(<<"l","i","m","i","t","e","d">>), LitCI(<<"p","v","t">>) >>) >>)),
       Cat(<< LitCI(<<"b","y">>), Plus(Space), Grp(1, LazyPlus(AlnumPunct)), Spaces,
              Alt(<< LitCI(<<"l","t","d">>), LitCI(<<"l","i","m","i","t","e","d">>), LitCI(<<"p","v","t">>), LitCI(<<"p","h","a","r","m","a">>) >>) >>) >>

\* OCRProcessor.extract_manufacturer: the first pattern whose match, cleaned
\* of trailing punctuation, is longer than three characters
RECURSIVE ExtractManufacturerFrom(_, _)
RECURSIVE ManufacturerOrNext(_, _, _)
ExtractManufacturerFrom(text, k) ==
    IF k > Len(ManufacturerPatternsB) THEN None
    ELSE ManufacturerOrNext(Search(ManufacturerPatternsB[k], text), text, k)

ManufacturerOrNext(m, text, k) ==
    IF m.ok /\ Len(RStrip(Strip(Group(text, m, 1), SpaceCs), {",", ".", "-"})) > 3
    THEN RStrip(Strip(Group(text, m, 1), SpaceCs), {",", ".", "-"})
    ELSE ExtractManufacturerFrom(text, k + 1)

ExtractManufacturerB(text) == ExtractManufacturerFrom(text, 1)

\* OCRProcessor.structure_text
StructureTextB(text, seed) ==
    [medicine_names |-> ExtractMedicineNames(text),
     dates          |-> ExtractDates(text, seed),
     dosages        |-> ExtractDosages(text, seed),
     batch_numbers  |-> ExtractBatchNumbers(text, seed),
     manufacturer   |-> ExtractManufacturerB(text)]

MedicalKeywords ==
    << <<"t","a","b","l","e","t">>, <<"c","a","p","s","u","l","e">>, <<"m","g">>, <<"m","l">>, <<"e","x","p">>, <<"m","f","g">>, <<"b","a","t","c","h">>, <<"l","o","t">> >>

\* \d{1,2}[-/]\d{1,2}[-/]\d{2,4}
AnyDateRe == Cat(<< D12, DateSep, D12, DateSep, Rep(Digit, 2, 4, TRUE) >>)
\* \d+\s*(mg|ml|g|mcg)
AnyDoseRe ==
    Cat(<< Number, Spaces,
           Alt(<< LitCI(<<"m","g">>), LitCI(<<"m","l">>), LitCI(<<"g">>), LitCI(<<"m","c","g">>) >>) >>)

\* ------------------------------------------------------------------------
\* Python floats: IEEE 754 binary64.  A float x with 0 <= x < 2 that is a
\* multiple of 2^-56 is the integer x * 2^56 written in two limbs of 28 bits,
\* hi * 2^28 + lo; every float from 0.0625 up to 2 is such a multiple.
\* ------------------------------------------------------------------------

LimbBase == 2^28
SignificandBits == 53

Float(hi, lo) == [hi |-> hi, lo |-> lo]

\* the literals of the code: 0.0, 0.1 = 0x1.999999999999ap-4,
\* 0.2 = 0x1.999999999999ap-3, 0.3 = 0x1.3333333333333p-2,
\* 0.4 = 0x1.999999999999ap-2, 1.0
Float00 == Float(0, 0)
Float01 == Float(26843545, 161061274)
Float02 == Float(53687091, 53687092)
Float03 == Float(80530636, 214748364)
Float04 == Float(107374182, 107374184)
Float10 == Float(LimbBase, 0)

\* the number of binary digits of n
BitLength(n) == CHOOSE k \in 0..30 : n < 2^k /\ (k = 0 \/ n >= 2^(k - 1))

\* the binary digits of hi * 2^28 + lo
Bits(hi, lo) == IF hi > 0 THEN 28 + BitLength(hi) ELSE BitLength(lo)

\* lo with its d lowest binary digits rounded away, to nearest and to even on
\* a tie
RoundLow(lo, d) ==
    IF (lo % 2^d) * 2 > 2^d \/ ((lo % 2^d) * 2 = 2^d /\ (lo \div 2^d) % 2 = 1)
    THEN lo - (lo % 2^d) + 2^d
    ELSE lo - (lo % 2^d)

\* the carry of the low limb taken into the high limb
Carried(hi, lo) == Float(hi + (lo \div LimbBase), lo % LimbBase)

\* the float nearest to hi * 2^28 + lo: 53 significant binary digits are kept
RoundFloat(hi, lo) ==
    IF Bits(hi, lo) <= SignificandBits THEN Float(hi, lo)
    ELSE Carried(hi, RoundLow(lo, Bits(hi, lo) - SignificandBits))

RoundCarried(x) == RoundFloat(x.hi, x.lo)

\* x + y
FloatAdd(x, y) == RoundCarried(Carried(x.hi + y.hi, x.lo + y.lo))

\* n * x for an integer 0 <= n <= 8
FloatTimes(n, x) == RoundCarried(Carried(n * x.hi, n * x.lo))

FloatLess(x, y) == x.hi < y.hi \/ (x.hi = y.hi /\ x.lo < y.lo)

\* min(x, y)
FloatMin(x, y) == IF FloatLess(y, x) THEN y ELSE x

\* the number of medical_keywords found in the lowered text
KeywordCount(lowered) ==
    Cardinality({k \in 1..Len(MedicalKeywords) : Contains(lowered, MedicalKeywords[k])})

\* OCRProcessor.calculate_confidence
CalculateConfidenceB(text) ==
    IF Len(text) = 0 THEN Float00
    ELSE FloatMin(
           FloatAdd(
             FloatAdd(
               FloatAdd(
                 FloatAdd(Float00,
                          IF Len(text) > 20 THEN Float03
                          ELSE IF Len(text) > 10 THEN Float02 ELSE Float00),
                 FloatMin(FloatTimes(KeywordCount(Lower(text)), Float01), Float04)),
               IF Search(AnyDateRe, text).ok THEN Float02 ELSE Float00),
             IF Search(AnyDoseRe, text).ok THEN Float01 ELSE Float00),
           Float10)

\* the result process_image builds from the raw and the cleaned text
ResultOfTexts(extracted_text, cleaned_text, seed) ==
    [raw_text        |-> extracted_text,
     cleaned_text    |-> cleaned_text,
     structured_data |-> StructureTextB(cleaned_text, seed),
     confidence      |-> CalculateConfidenceB(extracted_text)]

\* the text part of OCRProcessor.process_image: what it hands to the extractor
ProcessTextB(extracted_text, seed) ==
    ResultOfTexts(extracted_text, CleanText(extracted_text), seed)


\* ------------------------------------------------------------------------
\* MedicineExtractor, variant B (src/backend-medicine-extractor.py)
\* ------------------------------------------------------------------------

\* the keys of the table _load_medicine_database returns
MedicineDatabase ==
    { <<"p","a","r","a","c","e","t","a","m","o","l">>, <<"a","s","p","i","r","i","n">>, <<"i","b","u","p","r","o","f","e","n">>, <<"a","m","o","x","i","c","i","l","l","i","n">>, <<"c","i","p","r","o","f","l","o","x","a","c","i","n">>,
      <<"m","e","t","f","o","r","m","i","n">>, <<"o","m","e","p","r","a","z","o","l","e">>, <<"l","o","s","a","r","t","a","n">>, <<"a","t","o","r","v","a","s","t","a","t","i","n">> }

NameSuffixes == { <<"t","a","b">>, <<"c","a","p">>, <<"s","y","r","u","p">>, <<"i","n","j">> }

\* rf'{re.escape(name)}.*?\d+\s*mg' under re.IGNORECASE
NearDosageRe(name) ==
    Cat(<< LitCI(name), LazyStar(Dot), Number, Spaces, LitCI(<<"m","g">>) >>)

\* the weights of the name score, in tenths of a point
KnownNameScore == 100
NearDosageScore == 50
SuffixScore == 20

\* the score _extract_medicine_name gives a candidate, in tenths:
\* 10 for a known name, 5 for a dosage after it, 0.1 per character,
\* 2 for a form suffix
NameScore(name, text) ==
    (IF Lower(name) \in MedicineDatabase THEN KnownNameScore ELSE 0)
    + (IF Search(NearDosageRe(name), text).ok THEN NearDosageScore ELSE 0)
    + Len(name)
    + (IF \E sfx \in NameSuffixes : Contains(Lower(name), sfx) THEN SuffixScore ELSE 0)

\* max(scored_candidates, key = score): the first candidate of the list with
\* the highest score
FirstMax(names, scores) ==
    names[CHOOSE k \in 1..Len(names) :
            /\ \A j \in 1..Len(names) : scores[j] <= scores[k]
            /\ \A j \in 1..(k - 1) : scores[j] < scores[k]]

\* the scores of the candidates, in the order of the list
NameScores(candidate_names, text) ==
    [k \in 1..Len(candidate_names) |-> NameScore(candidate_names[k], text)]

\* MedicineExtractor._extract_medicine_name
ExtractMedicineNameB(candidate_names, text) ==
    IF Len(candidate_names) = 0 THEN None
    ELSE FirstMax(candidate_names, NameScores(candidate_names, text))

\* the elements of dosages that contain 'mg', in order
RECURSIVE MgDosages(_)
MgDosages(dosages) ==
    IF Len(dosages) = 0 THEN << >>
    ELSE (IF Contains(Lower(dosages[1]), <<"m","g">>) THEN << dosages[1] >> ELSE << >>)
            \o MgDosages(Tail(dosages))

\* MedicineExtractor._extract_primary_dosage
ExtractPrimaryDosage(dosages) ==
    IF Len(dosages) = 0 THEN None
    ELSE IF Len(MgDosages(dosages)) > 0 THEN MgDosages(dosages)[1]
    ELSE dosages[1]

\* MedicineExtractor._get_first_or_none
GetFirstOrNone(items) == IF Len(items) = 0 THEN None ELSE items[1]

PluralCI(w) == Cat(<< LitCI(w), Opt(Set(CI({"s"}))) >>)

QuantityPatternsB ==
    << Cat(<< Grp(1, Number), Spaces, PluralCI(<<"t","a","b","l","e","t">>) >>),
       Cat(<< Grp(1, Number), Spaces, PluralCI(<<"c","a","p","s","u","l","e">>) >>),
       Cat(<< Grp(1, Number), Spaces, LitCI(<<"m","l">>), Spaces, LitCI(<<"b","o","t","t","l","e">>) >>),
       Cat(<< Grp(1, Number), Spaces, PluralCI(<<"s","t","r","i","p">>) >>),
       Cat(<< LitCI(<<"p","a","c","k">>), Spaces, LitCI(<<"o","f">>), Spaces, Grp(1, Number) >>),
       Cat(<< Grp(1, Number), Spaces, PluralCI(<<"p","i","e","c","e">>) >>) >>

\* the quantity of a match of one of the patterns
QuantityOf(m, text) ==
    IF ~m.ok THEN None ELSE Group(text, m, 1) \o <<" ","u","n","i","t","s">>

\* MedicineExtractor._extract_quantity
ExtractQuantityB(text) == QuantityOf(SearchFirst(QuantityPatternsB, 1, text), text)

\* the forms and their keywords, in the order of the dictionary
Forms ==
    << <<<<"t","a","b","l","e","t">>, {<<"t","a","b","l","e","t">>, <<"t","a","b">>}>>,
       <<<<"c","a","p","s","u","l","e">>, {<<"c","a","p","s","u","l","e">>, <<"c","a","p">>}>>,
       <<<<"s","y","r","u","p">>, {<<"s","y","r","u","p">>, <<"l","i","q","u","i","d">>}>>,
       <<<<"i","n","j","e","c","t","i","o","n">>, {<<"i","n","j","e","c","t","i","o","n">>, <<"i","n","j">>}>>,
       <<<<"c","r","e","a","m">>, {<<"c","r","e","a","m">>, <<"o","i","n","t","m","e","n","t">>}>>,
       <<<<"d","r","o","p","s">>, {<<"d","r","o","p","s">>, <<"e","y","e"," ","d","r","o","p","s">>}>> >>

RECURSIVE FormFrom(_, _)
FormFrom(text_lower, k) ==
    IF k > Len(Forms) THEN None
    ELSE IF \E kw \in Forms[k][2] : Contains(text_lower, kw) THEN Forms[k][1]
    ELSE FormFrom(text_lower, k + 1)

\* MedicineExtractor._extract_medicine_form
ExtractMedicineForm(text) == FormFrom(Lower(text), 1)

\* MedicineExtractor._extract_manufacturing_date
ExtractManufacturingDateB(dates) ==
    IF Len(dates.manufacturing) = 0 THEN None ELSE NormalizeDateB(dates.manufacturing[1])

\* MedicineExtractor._extract_expiry_date
ExtractExpiryDateB(dates) ==
    IF Len(dates.expiry) = 0 THEN None ELSE NormalizeDateB(dates.expiry[1])

\* MedicineExtractor._extract_use_by_date
ExtractUseByDate(dates) == ExtractExpiryDateB(dates)

\* word.*?(?:\.|$) under re.IGNORECASE | re.DOTALL
UpToStop(word) == Cat(<< LitCI(word), LazyStar(DotAll), Alt(<< Set({"."}), Eol >>) >>)

StoragePatterns ==
    << UpToStop(<<"s","t","o","r","e">>), UpToStop(<<"k","e","e","p">>), UpToStop(<<"s","t","o","r","a","g","e">>), UpToStop(<<"t","e","m","p","e","r","a","t","u","r","e">>) >>

\* the whole match, stripped
StrippedMatch(m, text) == IF ~m.ok THEN None ELSE Strip(Group0(text, m), SpaceCs)

\* MedicineExtractor._extract_storage_instructions
ExtractStorageInstructions(text) == StrippedMatch(SearchFirst(StoragePatterns, 1, text), text)

WarningPatterns ==
    << UpToStop(<<"w","a","r","n","i","n","g">>), UpToStop(<<"c","a","u","t","i","o","n">>), UpToStop(<<"d","o"," ","n","o","t">>), UpToStop(<<"a","v","o","i","d">>) >>

\* the number of warnings _extract_warnings returns at most
MaxWarnings == 3

\* the first warnings found, stripped
FirstWarnings(found) == Take([k \in 1..Len(found) |-> Strip(found[k], SpaceCs)], MaxWarnings)

\* MedicineExtractor._extract_warnings
ExtractWarnings(text) == FirstWarnings(FindAllOf0(WarningPatterns, 1, text))

\* date(y, m, d).toordinal(): the days from 0001-01-01, counted from 1
RECURSIVE DaysBeforeMonth(_, _)
DaysBeforeMonth(y, m) ==
    IF m <= 1 THEN 0 ELSE DaysBeforeMonth(y, m - 1) + DaysInMonth(y, m - 1)

ToOrdinal(y, m, d) ==
    LET p == y - 1
    IN  p * 365 + (p \div 4) - (p \div 100) + (p \div 400) + DaysBeforeMonth(y, m) + d

\* the difference of the two calendar dates, the time of day left out
CalendarDays(dt, clock) ==
    ToOrdinal(dt.y, dt.m, dt.d) - ToOrdinal(clock.y, clock.m, clock.d)

\* (expiry_obj - today).days for today = datetime.now(): the difference is
\* floored to whole days, so any time of day after midnight takes one day off
DeltaDays(dt, clock) ==
    ToOrdinal(dt.y, dt.m, dt.d) - ToOrdinal(clock.y, clock.m, clock.d)
        - (IF clock.midnight THEN 0 ELSE 1)

\* a day count, and the value that stands where there is none (None, or the
\* key left out of the record)
KnownDays(n) == [known |-> TRUE, days |-> n]
NoDays == [known |-> FALSE, days |-> 0]

\* the days from the clock to a parsed date, none when the string did not parse
DaysUntil(dt, clock) == IF dt = NoDate THEN NoDays ELSE KnownDays(DeltaDays(dt, clock))

\* MedicineExtractor._calculate_days_until_expiry
CalculateDaysUntilExpiryB(expiry_date, clock) ==
    IF expiry_date = None \/ expiry_date = << >> THEN NoDays
    ELSE DaysUntil(Strptime(expiry_date, <<"%Y","-","%m","-","%d">>), clock)

\* MedicineExtractor._validate_medicine
ValidateExactCase(medicine_name) ==
    IF medicine_name = None \/ medicine_name = << >> THEN FALSE
    ELSE medicine_name \in MedicineDatabase

ValidateMedicine(medicine_name) ==
    IF medicine_name = None \/ medicine_name = << >> THEN FALSE
    ELSE Lower(medicine_name) \in MedicineDatabase

\* the medicine_info extract_from_label builds once the name and the two
\* expiry dates are extracted
MedicineInfo(ocr_result, name, expiry_date, use_by_date, clock) ==
    [name         |-> name,
     manufacturer |-> ocr_result.structured_data.manufacturer,
     batch_no     |-> GetFirstOrNone(ocr_result.structured_data.batch_numbers),
     dosage       |-> ExtractPrimaryDosage(ocr_result.structured_data.dosages),
     quantity     |-> ExtractQuantityB(ocr_result.cleaned_text),
     form         |-> ExtractMedicineForm(ocr_result.cleaned_text),
     mfg_date     |-> ExtractManufacturingDateB(ocr_result.structured_data.dates),
     expiry_date  |-> expiry_date,
     use_by_date  |-> use_by_date,
     storage_instructions |-> ExtractStorageInstructions(ocr_result.cleaned_text),
     warnings     |-> ExtractWarnings(ocr_result.cleaned_text),
     scan_type    |-> <<"l","a","b","e","l">>,
     scan_timestamp |-> clock,
     confidence   |-> ocr_result.confidence,
     days_until_expiry |->
        IF expiry_date # None /\ expiry_date # << >>
        THEN CalculateDaysUntilExpiryB(expiry_date, clock)
        ELSE IF use_by_date # None /\ use_by_date # << >>
             THEN CalculateDaysUntilExpiryB(use_by_date, clock)
             ELSE NoDays,
     validated    |-> ValidateMedicine(name)]

\* MedicineExtractor.extract_from_label on a well-formed ocr_result
ExtractFromLabelB(ocr_result, clock) ==
    MedicineInfo(ocr_result,
                 ExtractMedicineNameB(ocr_result.structured_data.medicine_names,
                                      ocr_result.cleaned_text),
                 ExtractExpiryDateB(ocr_result.structured_data.dates),
                 ExtractUseByDate(ocr_result.structured_data.dates),
                 clock)


\* ------------------------------------------------------------------------
\* OCRProcessor.structure_text, variant A (src/backend/ocr_processor.py)
\* ------------------------------------------------------------------------

\* what Python takes for false among the values of a field: None and ''
Truthy(x) == x # None /\ x # << >>

ColonOrSpace == Set({":"} \cup SpaceCs)          \* [:\s]
RestOfLine   == Plus(NotSet({"\n"}))             \* [^\n]+
AnyLetter    == Set(AlphaCs)                     \* [A-Z] or [a-z] under re.IGNORECASE

AltCI(words) == Alt([k \in 1..Len(words) |-> LitCI(words[k])])

\* (?:exp|expiry|expires?), (?:mfg|manufactured?|mfd), ...: the alternatives
\* in the order they are written
ExpiryKeyword == Alt(<< LitCI(<<"e","x","p">>), LitCI(<<"e","x","p","i","r","y">>), Cat(<< LitCI(<<"e","x","p","i","r","e">>), Opt(LitCI(<<"s">>)) >>) >>)
MfgKeyword    == Alt(<< LitCI(<<"m","f","g">>), Cat(<< LitCI(<<"m","a","n","u","f","a","c","t","u","r","e">>), Opt(LitCI(<<"d">>)) >>), LitCI(<<"m","f","d">>) >>)

\* [0-9]{1,2}[/-][0-9]{1,2}[/-][0-9]{2,4}
NumericDateRe == Cat(<< D12, DateSep, D12, DateSep, Rep(Digit, 2, 4, TRUE) >>)
\* [a-z]{3,9}\s*[0-9]{2,4}
MonthYearRe == Cat(<< Rep(AnyLetter, 3, 9, TRUE), Spaces, Rep(Digit, 2, 4, TRUE) >>)

DateAfter(keyword) ==
    << Cat(<< keyword, Star(ColonOrSpace), Grp(1, NumericDateRe) >>),
       Cat(<< keyword, Star(ColonOrSpace), Grp(1, MonthYearRe) >>) >>

ExpiryPatternsA == DateAfter(ExpiryKeyword)
MfgPatternsA    == DateAfter(MfgKeyword)

\* (?:mg|ml|g|mcg|units?)
UnitsOcrA ==
    Alt(<< LitCI(<<"m","g">>), LitCI(<<"m","l">>), LitCI(<<"g">>), LitCI(<<"m","c","g">>),
           Cat(<< LitCI(<<"u","n","i","t">>), Opt(LitCI(<<"s">>)) >>) >>)

NamePatternsA ==
    << Cat(<< AltCI(<< <<"n","a","m","e">>, <<"m","e","d","i","c","i","n","e">>, <<"d","r","u","g">> >>), Star(ColonOrSpace), Grp(1, RestOfLine) >>),
       Cat(<< Bol, Grp(1, Cat(<< AnyLetter, Plus(Set(AlphaCs \cup SpaceCs)) >>)),
              Alt(<< Set({"\n"}), Eol >>) >>) >>

DosagePatternsOcrA ==
    << Cat(<< AltCI(<< <<"d","o","s","a","g","e">>, <<"d","o","s","e">>, <<"s","t","r","e","n","g","t","h">> >>), Star(ColonOrSpace), Grp(1, RestOfLine) >>),
       Grp(1, Cat(<< Number, Spaces, UnitsOcrA >>)) >>

\* [a-z0-9\-]+ under re.IGNORECASE
BatchChars == Plus(Set(AlphaCs \cup DigitCs \cup {"-"}))

\* (?:batch|lot)\s*(?:no|number)?[:\s]*(...) and (?:b\.?no|l\.?no)[:\s]*(...)
BatchPatternsA ==
    << Cat(<< AltCI(<< <<"b","a","t","c","h">>, <<"l","o","t">> >>), Spaces,
              Opt(AltCI(<< <<"n","o">>, <<"n","u","m","b","e","r">> >>)), Star(ColonOrSpace), Grp(1, BatchChars) >>),
       Cat(<< Alt(<< Cat(<< LitCI(<<"b">>), Opt(Set({"."})), LitCI(<<"n","o">>) >>),
                     Cat(<< LitCI(<<"l">>), Opt(Set({"."})), LitCI(<<"n","o">>) >>) >>),
              Star(ColonOrSpace), Grp(1, BatchChars) >>) >>

\* (?:mfr?|manufacturer?|made\s*by)
MakerKeyword ==
    Alt(<< Cat(<< LitCI(<<"m","f">>), Opt(LitCI(<<"r">>)) >>),
           Cat(<< LitCI(<<"m","a","n","u","f","a","c","t","u","r","e">>), Opt(LitCI(<<"r">>)) >>),
           Cat(<< LitCI(<<"m","a","d","e">>), Spaces, LitCI(<<"b","y">>) >>) >>)

ManufacturerPatternsOcrA ==
    << Cat(<< MakerKeyword, Star(ColonOrSpace), Grp(1, RestOfLine) >>) >>

\* (?:tablets?|capsules?|pills?)
CountedForm ==
    Alt(<< PluralCI(<<"t","a","b","l","e","t">>), PluralCI(<<"c","a","p","s","u","l","e">>), PluralCI(<<"p","i","l","l">>) >>)

QuantityPatternsA ==
    << Cat(<< AltCI(<< <<"q","t","y">>, <<"q","u","a","n","t","i","t","y">>, <<"c","o","u","n","t">> >>), Star(ColonOrSpace), Grp(1, Number) >>),
       Cat(<< Grp(1, Number), Spaces, CountedForm >>) >>

\* group 1 of a match, stripped
StrippedGroup(m, text) == IF ~m.ok THEN None ELSE Strip(Group(text, m, 1), SpaceCs)

\* group 1 of a match as it stands
PlainGroup(m, text) == IF ~m.ok THEN None ELSE Group(text, m, 1)

\* extract_field: group 1 of the first pattern that matches, stripped
ExtractField(patterns, text) == StrippedGroup(SearchFirst(patterns, 1, text), text)

\* OCRProcessor.structure_text of variant A
StructureTextA(text) ==
    [medicine_name |-> ExtractField(NamePatternsA, text),
     dosage        |-> ExtractField(DosagePatternsOcrA, text),
     expiry_date   |-> ExtractField(ExpiryPatternsA, text),
     mfg_date      |-> ExtractField(MfgPatternsA, text),
     batch_number  |-> ExtractField(BatchPatternsA, text),
     manufacturer  |-> ExtractField(ManufacturerPatternsOcrA, text),
     quantity      |-> ExtractField(QuantityPatternsA, text)]

\* the structured_data of a result that carries none: {}
NoStructuredData ==
    [medicine_name |-> None, dosage |-> None, expiry_date |-> None, mfg_date |-> None,
     batch_number |-> None, manufacturer |-> None, quantity |-> None]


\* ------------------------------------------------------------------------
\* MedicineExtractor, variant A (src/backend/medicine_extractor.py)
\* ------------------------------------------------------------------------

EdgeChars == {".", ",", ";", ":", "-", "_", "(", ")", "[", "]", "{", "}"}

\* MedicineExtractor._clean_text
CleanTextA(text) ==
    IF ~Truthy(text) THEN << >>
    ELSE Strip(JoinSp(Split(text)), EdgeChars)

MedicineForms ==
    << <<"t","a","b","l","e","t">>, <<"c","a","p","s","u","l","e">>, <<"s","y","r","u","p">>, <<"i","n","j","e","c","t","i","o","n">>, <<"c","r","e","a","m">>, <<"o","i","n","t","m","e","n","t">>,
       <<"d","r","o","p","s">>, <<"s","p","r","a","y">>, <<"i","n","h","a","l","e","r">>, <<"p","a","t","c","h">>, <<"p","o","w","d","e","r">>, <<"s","o","l","u","t","i","o","n">> >>

SkipWords == { <<"t","a","b","l","e","t">>, <<"c","a","p","s","u","l","e">>, <<"s","y","r","u","p">>, <<"m","g">>, <<"m","l">>, <<"m","a","n","u","f","a","c","t","u","r","e","d">>, <<"e","x","p","i","r","e","s">> }

\* the number of leading lines _extract_medicine_name looks at, and the
\* lengths a line must lie between
NameLines == 5
MinNameLength == 2
MaxNameLength == 50

\* whether a stripped line can be a name
IsNameLine(line) ==
    /\ Len(line) > MinNameLength /\ Len(line) < MaxNameLength
    /\ ~\E word \in SkipWords : Contains(Lower(line), word)
    /\ Search(Set(UpperCs), line).ok

\* the first of the lines that can be a name
RECURSIVE FirstNameLine(_, _)
FirstNameLine(lines, k) ==
    IF k > Len(lines) \/ k > NameLines THEN None
    ELSE IF IsNameLine(Strip(lines[k], SpaceCs)) THEN CleanTextA(Strip(lines[k], SpaceCs))
    ELSE FirstNameLine(lines, k + 1)

\* MedicineExtractor._extract_medicine_name
ExtractMedicineNameA(text, structured_data) ==
    IF Truthy(structured_data.medicine_name) THEN CleanTextA(structured_data.medicine_name)
    ELSE FirstNameLine(SplitOn(text, "\n"), 1)

\* (?:mg|ml|g|mcg|units?|iu|%)
UnitsA ==
    Alt(<< LitCI(<<"m","g">>), LitCI(<<"m","l">>), LitCI(<<"g">>), LitCI(<<"m","c","g">>),
           Cat(<< LitCI(<<"u","n","i","t">>), Opt(LitCI(<<"s">>)) >>), LitCI(<<"i","u">>), Set({"%"}) >>)

\* \d+\.?\d*\s*(?:mg|ml|g|mcg|units?|iu|%)
AmountA == Cat(<< Number, Opt(Set({"."})), Star(Digit), Spaces, UnitsA >>)

DosagePatternsA ==
    << Grp(1, AmountA),
       Cat(<< Alt(<< Cat(<< LitCI(<<"d","o","s","a","g">>), Opt(LitCI(<<"e">>)) >>), LitCI(<<"s","t","r","e","n","g","t","h">>) >>),
              Plus(ColonOrSpace), Grp(1, AmountA) >>) >>

\* MedicineExtractor._extract_dosage
ExtractDosageA(text, structured_data) ==
    IF Truthy(structured_data.dosage) THEN CleanTextA(structured_data.dosage)
    ELSE ExtractField(DosagePatternsA, text)

\* str.title() of a single lower-case word
Title(word) == IF Len(word) = 0 THEN word ELSE << UpperChar(word[1]) >> \o Tail(word)

RECURSIVE FormFromA(_, _)
FormFromA(text_lower, k) ==
    IF k > Len(MedicineForms) THEN None
    ELSE IF Contains(text_lower, MedicineForms[k]) THEN Title(MedicineForms[k])
    ELSE FormFromA(text_lower, k + 1)

\* MedicineExtractor._extract_form
ExtractForm(text) == FormFromA(Lower(text), 1)

\* the two characters the source file holds where a registered-trade-mark
\* sign was meant, and the lower-case form re.IGNORECASE also accepts
MisencodedMark == << {"U+00C2", "U+00E2"}, {"U+00AE"} >>

ManufacturerPatternsA ==
    << Cat(<< MakerKeyword, Plus(ColonOrSpace), Grp(1, RestOfLine) >>),
       Cat(<< Alt(<< LitCI(<<"b","y">>), Str(MisencodedMark) >>), Plus(Space),
              Grp(1, Cat(<< AnyLetter, RestOfLine,
                            AltCI(<< <<"l","t","d">>, <<"i","n","c">>, <<"c","o","r","p">>, <<"p","h","a","r","m","a">>, <<"l","a","b">> >>) >>)) >>) >>

\* group 1 of a match, as _clean_text leaves it
CleanGroup(m, text) == IF ~m.ok THEN None ELSE CleanTextA(Group(text, m, 1))

\* group 1 of the first pattern that matches, as _clean_text leaves it
CleanField(patterns, text) == CleanGroup(SearchFirst(patterns, 1, text), text)

\* MedicineExtractor._extract_manufacturer
ExtractManufacturerA(text, structured_data) ==
    IF Truthy(structured_data.manufacturer) THEN CleanTextA(structured_data.manufacturer)
    ELSE CleanField(ManufacturerPatternsA, text)

\* MedicineExtractor._extract_batch_number
ExtractBatchNumberA(text, structured_data) ==
    IF Truthy(structured_data.batch_number) THEN CleanTextA(structured_data.batch_number)
    ELSE ExtractField(BatchPatternsA, text)

\* group 1 of a match, stripped and normalised
DateOfGroup(m, text) ==
    IF ~m.ok THEN None ELSE NormalizeDateA(Strip(Group(text, m, 1), SpaceCs))

\* group 1 of the first pattern that matches, stripped and normalised
DateField(patterns, text) == DateOfGroup(SearchFirst(patterns, 1, text), text)

\* MedicineExtractor._extract_expiry_date
ExtractExpiryDateA(text, structured_data) ==
    IF Truthy(structured_data.expiry_date) THEN NormalizeDateA(structured_data.expiry_date)
    ELSE DateField(ExpiryPatternsA, text)

\* MedicineExtractor._extract_mfg_date
ExtractMfgDateA(text, structured_data) ==
    IF Truthy(structured_data.mfg_date) THEN NormalizeDateA(structured_data.mfg_date)
    ELSE DateField(MfgPatternsA, text)

\* MedicineExtractor._extract_quantity
ExtractQuantityA(text, structured_data) ==
    IF Truthy(structured_data.quantity) THEN CleanTextA(structured_data.quantity)
    ELSE ExtractField(QuantityPatternsA, text)

\* (?:take|use|apply)[^\n]*, (?:dosage|directions?)[:\s]+([^\n]+),
\* (?:once|twice|thrice)\s+(?:daily|a day)[^\n]*
InstructionPatterns ==
    << Cat(<< AltCI(<< <<"t","a","k","e">>, <<"u","s","e">>, <<"a","p","p","l","y">> >>), Star(NotSet({"\n"})) >>),
       Cat(<< Alt(<< LitCI(<<"d","o","s","a","g","e">>), PluralCI(<<"d","i","r","e","c","t","i","o","n">>) >>),
              Plus(ColonOrSpace), Grp(1, RestOfLine) >>),
       Cat(<< AltCI(<< <<"o","n","c","e">>, <<"t","w","i","c","e">>, <<"t","h","r","i","c","e">> >>), Plus(Space),
              AltCI(<< <<"d","a","i","l","y">>, <<"a"," ","d","a","y">> >>), Star(NotSet({"\n"})) >>) >>

\* the whole match, as _clean_text leaves it
CleanMatch(m, text) == IF ~m.ok THEN None ELSE CleanTextA(Group0(text, m))

\* MedicineExtractor._extract_instructions
ExtractInstructions(text) == CleanMatch(SearchFirst(InstructionPatterns, 1, text), text)

\* the weights of _calculate_confidence and the length the text must exceed
NameWeight == Float03
DosageWeight == Float02
ExpiryWeight == Float02
BatchWeight == Float01
ManufacturerWeight == Float01
LengthWeight == Float01
QualityLength == 20
FullConfidence == Float10

\* score += weight when the condition holds
Plus_(score, condition, weight) == IF condition THEN FloatAdd(score, weight) ELSE score

\* MedicineExtractor._calculate_confidence
CalculateConfidenceA(text, structured_data) ==
    FloatMin(
      FullConfidence,
      Plus_(Plus_(Plus_(Plus_(Plus_(Plus_(Float00,
        Truthy(structured_data.medicine_name), NameWeight),
        Truthy(structured_data.dosage), DosageWeight),
        Truthy(structured_data.expiry_date), ExpiryWeight),
        Truthy(structured_data.batch_number), BatchWeight),
        Truthy(structured_data.manufacturer), ManufacturerWeight),
        Len(text) > QualityLength, LengthWeight))

\* the record _extract_from_label builds
MedicineA(text, structured_data) ==
    [name         |-> ExtractMedicineNameA(text, structured_data),
     dosage       |-> ExtractDosageA(text, structured_data),
     form         |-> ExtractForm(text),
     manufacturer |-> ExtractManufacturerA(text, structured_data),
     batch_no     |-> ExtractBatchNumberA(text, structured_data),
     mfg_date     |-> ExtractMfgDateA(text, structured_data),
     expiry_date  |-> ExtractExpiryDateA(text, structured_data),
     quantity     |-> ExtractQuantityA(text, structured_data),
     instructions |-> ExtractInstructions(text),
     scan_type    |-> <<"l","a","b","e","l">>,
     confidence   |-> CalculateConfidenceA(text, structured_data)]

\* the result _extract_from_label builds around the record
LabelResultA(medicine, clock) ==
    [medicines    |-> IF Truthy(medicine.name) THEN << medicine >> ELSE << >>,
     patient_info |-> << >>,
     scan_info    |-> [type |-> <<"M","e","d","i","c","i","n","e"," ","L","a","b","e","l">>, processed_at |-> clock]]

\* MedicineExtractor._extract_from_label
ExtractFromLabelA(text, structured_data, clock) ==
    LabelResultA(MedicineA(text, structured_data), clock)


\* ------------------------------------------------------------------------
\* Variant A: prescriptions (src/backend/medicine_extractor.py)
\* ------------------------------------------------------------------------

\* self.dosage_units
DosageUnits == << <<"m","g">>, <<"m","l">>, <<"g">>, <<"m","c","g">>, <<"u","n","i","t","s">>, <<"i","u">>, <<"%">> >>

\* a line must be longer than this to be looked at
MinLineLength == 5

\* \d+.*(?:times?|daily|twice|once) under re.IGNORECASE
FrequencyShapeRe ==
    Cat(<< Number, Star(Dot),
           Alt(<< PluralCI(<<"t","i","m","e">>), LitCI(<<"d","a","i","l","y">>), LitCI(<<"t","w","i","c","e">>), LitCI(<<"o","n","c","e">>) >>) >>)

\* any(unit in line.lower() for unit in self.dosage_units)
HasDosageUnit(line) ==
    \E k \in 1..Len(DosageUnits) : Contains(Lower(line), DosageUnits[k])

\* the test of _identify_medicine_lines on a stripped line
IsMedicineLine(line) ==
    /\ Len(line) > MinLineLength
    /\ (HasDosageUnit(line) \/ Search(FrequencyShapeRe, line).ok)

\* the lines of the text, each stripped
StrippedLines(lines) == [k \in 1..Len(lines) |-> Strip(lines[k], SpaceCs)]

\* MedicineExtractor._identify_medicine_lines
IdentifyMedicineLines(text) ==
    SelectSeq(StrippedLines(SplitOn(text, "\n")), IsMedicineLine)

\* \b(?:take|tablet?s?|capsule?s?|mg|ml|once|twice|daily|\d+)\b
PrescriptionWordsRe ==
    Cat(<< WB,
           Alt(<< LitCI(<<"t","a","k","e">>),
                  Cat(<< LitCI(<<"t","a","b","l","e">>), Opt(LitCI(<<"t">>)), Opt(LitCI(<<"s">>)) >>),
                  Cat(<< LitCI(<<"c","a","p","s","u","l">>), Opt(LitCI(<<"e">>)), Opt(LitCI(<<"s">>)) >>),
                  LitCI(<<"m","g">>), LitCI(<<"m","l">>), LitCI(<<"o","n","c","e">>), LitCI(<<"t","w","i","c","e">>),
                  LitCI(<<"d","a","i","l","y">>), Number >>),
           WB >>)

\* what is left of s between the matches ms, from the k-th match and the
\* offset from on
RECURSIVE Between(_, _, _, _)
Between(s, ms, k, from) ==
    IF k > Len(ms) THEN Slice(s, from, Len(s))
    ELSE Slice(s, from, ms[k].st) \o Between(s, ms, k + 1, ms[k].en)

\* re.sub(r, '', s)
Remove(r, s) == Between(s, FindIter(r, s, 0), 1, 0)

\* str.title(): a letter after a letter in lower case, every other letter in
\* upper case
StrTitle(s) ==
    [k \in 1..Len(s) |->
        IF k > 1 /\ s[k - 1] \in AlphaCs THEN LowerChar(s[k]) ELSE UpperChar(s[k])]

\* words[0].title() if words else None
FirstWordTitle(words) == IF Len(words) = 0 THEN None ELSE StrTitle(words[1])

\* MedicineExtractor._extract_medicine_name_from_line
ExtractMedicineNameFromLine(line) ==
    FirstWordTitle(Split(Strip(Remove(PrescriptionWordsRe, line), SpaceCs)))

\* MedicineExtractor._extract_dosage_from_line
ExtractDosageFromLine(line) == StrippedGroup(Search(Grp(1, AmountA), line), line)

\* (?:daily|a day|per day)
PerDay == Alt(<< LitCI(<<"d","a","i","l","y">>), LitCI(<<"a"," ","d","a","y">>), LitCI(<<"p","e","r"," ","d","a","y">>) >>)

FrequencyPatterns ==
    << Cat(<< Grp(1, Alt(<< LitCI(<<"o","n","c","e">>), LitCI(<<"t","w","i","c","e">>), LitCI(<<"t","h","r","i","c","e">>) >>)),
              Spaces, PerDay >>),
       Cat(<< Grp(1, Number), Spaces, PluralCI(<<"t","i","m","e">>), Spaces, PerDay >>),
       Cat(<< LitCI(<<"e","v","e","r","y">>), Spaces, Grp(1, Number), Spaces, PluralCI(<<"h","o","u","r">>) >>) >>

\* MedicineExtractor._extract_frequency
ExtractFrequency(line) == StrippedMatch(SearchFirst(FrequencyPatterns, 1, line), line)

\* (?:days?|weeks?|months?)
TimeUnit == Alt(<< PluralCI(<<"d","a","y">>), PluralCI(<<"w","e","e","k">>), PluralCI(<<"m","o","n","t","h">>) >>)

DurationPatterns ==
    << Cat(<< LitCI(<<"f","o","r">>), Spaces, Grp(1, Number), Spaces, TimeUnit >>),
       Cat(<< Grp(1, Number), Spaces, TimeUnit, Spaces, LitCI(<<"c","o","u","r","s","e">>) >>) >>

\* MedicineExtractor._extract_duration
ExtractDuration(line) == StrippedMatch(SearchFirst(DurationPatterns, 1, line), line)

InstructionKeywords ==
    << <<"a","f","t","e","r">>, <<"b","e","f","o","r","e">>, <<"w","i","t","h">>, <<"f","o","o","d">>, <<"m","e","a","l">>, <<"e","m","p","t","y"," ","s","t","o","m","a","c","h">> >>

\* s.split(keyword)[1] for a keyword that occurs in s at offset i: what
\* stands between its first and its second occurrence
UpToKeyword(rest, keyword) ==
    IF Find(rest, keyword) = -1 THEN rest ELSE Slice(rest, 0, Find(rest, keyword))
SecondPart(s, keyword, i) == UpToKeyword(Slice(s, i + Len(keyword), Len(s)), keyword)

\* f"{keyword} {parts[1].strip()}"
InstructionAfter(s, keyword) ==
    keyword \o <<" ">> \o Strip(SecondPart(s, keyword, Find(s, keyword)), SpaceCs)

\* the loop of _extract_instructions_from_line from the k-th keyword on, over
\* the line in lower case
RECURSIVE InstructionFrom(_, _)
InstructionFrom(lowered, k) ==
    IF k > Len(InstructionKeywords) THEN None
    ELSE IF Contains(lowered, InstructionKeywords[k])
         THEN InstructionAfter(lowered, InstructionKeywords[k])
         ELSE InstructionFrom(lowered, k + 1)

\* MedicineExtractor._extract_instructions_from_line
ExtractInstructionsFromLine(line) == InstructionFrom(Lower(line), 1)

\* the record _extract_from_prescription builds for one line
MedicineOfLine(line) ==
    [name         |-> ExtractMedicineNameFromLine(line),
     dosage       |-> ExtractDosageFromLine(line),
     frequency    |-> ExtractFrequency(line),
     duration     |-> ExtractDuration(line),
     instructions |-> ExtractInstructionsFromLine(line),
     scan_type    |-> <<"p","r","e","s","c","r","i","p","t","i","o","n">>]

\* the loop of _extract_from_prescription: the records that have a name
RECURSIVE NamedMedicines(_)
KeepNamed(medicine, rest) ==
    IF Truthy(medicine.name) THEN << medicine >> \o rest ELSE rest
NamedMedicines(lines) ==
    IF Len(lines) = 0 THEN << >>
    ELSE KeepNamed(MedicineOfLine(lines[1]), NamedMedicines(Tail(lines)))

\* (?:patient|name)[:\s]+([^\n]+), (?:age)[:\s]+(\d+), (?:dr|doctor)[:\s\.]+([^\n]+)
PatientNameRe ==
    Cat(<< AltCI(<< <<"p","a","t","i","e","n","t">>, <<"n","a","m","e">> >>), Plus(ColonOrSpace), Grp(1, RestOfLine) >>)
AgeRe == Cat(<< LitCI(<<"a","g","e">>), Plus(ColonOrSpace), Grp(1, Number) >>)
DoctorRe ==
    Cat(<< AltCI(<< <<"d","r">>, <<"d","o","c","t","o","r">> >>), Plus(Set({":", "."} \cup SpaceCs)),
           Grp(1, RestOfLine) >>)


\* MedicineExtractor._extract_patient_info; a key the code leaves out of the
\* dictionary holds None here
ExtractPatientInfo(text) ==
    [name   |-> CleanGroup(Search(PatientNameRe, text), text),
     age    |-> PlainGroup(Search(AgeRe, text), text),
     doctor |-> CleanGroup(Search(DoctorRe, text), text)]

\* MedicineExtractor._extract_from_prescription
ExtractFromPrescriptionA(text, clock) ==
    [medicines    |-> NamedMedicines(IdentifyMedicineLines(text)),
     patient_info |-> ExtractPatientInfo(text),
     scan_info    |-> [type |-> <<"P","r","e","s","c","r","i","p","t","i","o","n">>, processed_at |-> clock]]


\* ------------------------------------------------------------------------
\* Variant B: prescriptions (src/backend-medicine-extractor.py)
\* ------------------------------------------------------------------------

\* [A-Za-z][A-Za-z0-9\s]* and \d+\s*mg under re.IGNORECASE
EntryName == Cat(<< AnyLetter, Star(Set(AlphaCs \cup DigitCs \cup SpaceCs)) >>)
MgAmount  == Cat(<< Number, Spaces, LitCI(<<"m","g">>) >>)

\* the three medicine_patterns of _extract_multiple_medicines and the number
\* of groups of each
MedicinePatterns ==
    << Cat(<< Grp(1, Cat(<< Number, Set({"."}) >>)), Spaces, Grp(2, EntryName), Spaces,
              Grp(3, MgAmount) >>),
       Cat(<< LitCI(<<"t","a","b">>), Set({"."}), Spaces, Grp(1, EntryName), Spaces, Grp(2, MgAmount) >>),
       Cat(<< LitCI(<<"c","a","p">>), Set({"."}), Spaces, Grp(1, EntryName), Spaces, Grp(2, MgAmount) >>) >>
MedicineGroups == << 3, 2, 2 >>

\* the number of characters after the medicine name that are searched for
\* its instructions
ContextLength == 200

SingleInstructionPatterns ==
    << Grp(1, Cat(<< Number, Spaces, LitCI(<<"x">>), Spaces, Number >>)),
       Grp(1, Cat(<< Number, Spaces, PluralCI(<<"t","i","m","e">>), Spaces,
                     Opt(Cat(<< LitCI(<<"a">>), Spaces >>)), LitCI(<<"d","a","y">>) >>)),
       Grp(1, Cat(<< LitCI(<<"t","w","i","c","e">>), Spaces, LitCI(<<"d","a","i","l","y">>) >>)),
       Grp(1, Cat(<< LitCI(<<"o","n","c","e">>), Spaces, LitCI(<<"d","a","i","l","y">>) >>)) >>

InstructionsIn(context) ==
    PlainGroup(SearchFirst(SingleInstructionPatterns, 1, context), context)

InstructionsFrom(text, medicine_index) ==
    IF medicine_index = -1 THEN None
    ELSE InstructionsIn(Slice(text, medicine_index, medicine_index + ContextLength))

\* MedicineExtractor._extract_single_medicine_instructions
ExtractSingleMedicineInstructions(text, medicine_name) ==
    InstructionsFrom(text, Find(Lower(text), Lower(medicine_name)))

\* the dictionary built for one match: match[1] is the name, match[2] the
\* dosage when the pattern has three groups
MedicineOfMatch(text, m, groups) ==
    [name         |-> Group(text, m, 2),
     dosage       |-> IF groups > 2 THEN Group(text, m, 3) ELSE None,
     instructions |-> ExtractSingleMedicineInstructions(text, Group(text, m, 2))]

MedicinesOfMatches(text, ms, groups) ==
    [k \in 1..Len(ms) |-> MedicineOfMatch(text, ms[k], groups)]

\* MedicineExtractor._extract_multiple_medicines: the matches of the first
\* pattern, then those of the second, then those of the third
ExtractMultipleMedicines(text) ==
    MedicinesOfMatches(text, FindIter(MedicinePatterns[1], text, 0), MedicineGroups[1])
    \o MedicinesOfMatches(text, FindIter(MedicinePatterns[2], text, 0), MedicineGroups[2])
    \o MedicinesOfMatches(text, FindIter(MedicinePatterns[3], text, 0), MedicineGroups[3])

\* ([A-Za-z\s]+)
LettersAndSpaces == Plus(Set(AlphaCs \cup SpaceCs))

DoctorPatterns ==
    << Cat(<< LitCI(<<"d","r">>), Opt(Set({"."})), Spaces, Grp(1, LettersAndSpaces) >>),
       Cat(<< LitCI(<<"d","o","c","t","o","r">>), Spaces, Grp(1, LettersAndSpaces) >>),
       Cat(<< LitCI(<<"p","h","y","s","i","c","i","a","n">>), Spaces, Grp(1, LettersAndSpaces) >>) >>

\* MedicineExtractor._extract_doctor_name
ExtractDoctorName(text) == StrippedGroup(SearchFirst(DoctorPatterns, 1, text), text)

PatientPatterns ==
    << Cat(<< LitCI(<<"p","a","t","i","e","n","t">>), Spaces, Opt(Set({":"})), Spaces, Grp(1, LettersAndSpaces) >>),
       Cat(<< LitCI(<<"n","a","m","e">>), Spaces, Opt(Set({":"})), Spaces, Grp(1, LettersAndSpaces) >>),
       Cat(<< LitCI(<<"m","r">>), Opt(Set({"."})), Spaces, Grp(1, LettersAndSpaces) >>),
       Cat(<< LitCI(<<"m","r","s">>), Opt(Set({"."})), Spaces, Grp(1, LettersAndSpaces) >>) >>

\* MedicineExtractor._extract_patient_name
ExtractPatientName(text) == StrippedGroup(SearchFirst(PatientPatterns, 1, text), text)

FirstNormalized(all_dates) ==
    IF Len(all_dates) = 0 THEN None ELSE NormalizeDateB(all_dates[1])

\* MedicineExtractor._extract_prescription_date
ExtractPrescriptionDate(dates) == FirstNormalized(dates.other \o dates.expiry)

\* (clinic.*?)(?:\n|$), (hospital.*?)(?:\n|$), (medical center.*?)(?:\n|$)
UpToLineEnd(word) ==
    Cat(<< Grp(1, Cat(<< LitCI(word), LazyStar(Dot) >>)), Alt(<< Set({"\n"}), Eol >>) >>)
ClinicPatterns ==
    << UpToLineEnd(<<"c","l","i","n","i","c">>), UpToLineEnd(<<"h","o","s","p","i","t","a","l">>), UpToLineEnd(<<"m","e","d","i","c","a","l"," ","c","e","n","t","e","r">>) >>

\* MedicineExtractor._extract_clinic_info
ExtractClinicInfo(text) == StrippedGroup(SearchFirst(ClinicPatterns, 1, text), text)

\* (?:a\s*)?day after a word or a number of times
ADay == Cat(<< Opt(Cat(<< LitCI(<<"a">>), Spaces >>)), LitCI(<<"d","a","y">>) >>)

DosageInstructionPatterns ==
    << Grp(1, Cat(<< Number, Spaces, PluralCI(<<"t","i","m","e">>), Spaces, ADay >>)),
       Grp(1, Cat(<< LitCI(<<"t","w","i","c","e">>), Spaces, ADay >>)),
       Grp(1, Cat(<< LitCI(<<"o","n","c","e">>), Spaces, ADay >>)),
       Grp(1, Cat(<< LitCI(<<"b","e","f","o","r","e">>), Spaces, PluralCI(<<"m","e","a","l">>) >>)),
       Grp(1, Cat(<< LitCI(<<"a","f","t","e","r">>), Spaces, PluralCI(<<"m","e","a","l">>) >>)),
       Grp(1, Cat(<< LitCI(<<"w","i","t","h">>), Spaces, PluralCI(<<"m","e","a","l">>) >>)),
       Grp(1, Cat(<< LitCI(<<"a","t">>), Spaces, LitCI(<<"b","e","d","t","i","m","e">>) >>)),
       Grp(1, Cat(<< LitCI(<<"a","s">>), Spaces, LitCI(<<"n","e","e","d","e","d">>) >>)) >>

\* the matches of the patterns from the k-th on, pattern by pattern
RECURSIVE FindAllOfPatterns(_, _, _)
FindAllOfPatterns(patterns, k, text) ==
    IF k > Len(patterns) THEN << >>
    ELSE FindAll1(patterns[k], text) \o FindAllOfPatterns(patterns, k + 1, text)

\* MedicineExtractor._extract_dosage_instructions: list(set(instructions))
ExtractDosageInstructions(text, seed) ==
    ListOfSet(FindAllOfPatterns(DosageInstructionPatterns, 1, text), seed)

\* MedicineExtractor.extract_from_prescription on a well-formed ocr_result
ExtractFromPrescriptionB(ocr_result, seed, clock) ==
    [medicines         |-> ExtractMultipleMedicines(ocr_result.cleaned_text),
     doctor_name       |-> ExtractDoctorName(ocr_result.cleaned_text),
     patient_name      |-> ExtractPatientName(ocr_result.cleaned_text),
     prescription_date |-> ExtractPrescriptionDate(ocr_result.structured_data.dates),
     clinic_hospital   |-> ExtractClinicInfo(ocr_result.cleaned_text),
     instructions      |-> ExtractDosageInstructions(ocr_result.cleaned_text, seed),
     scan_type         |-> <<"p","r","e","s","c","r","i","p","t","i","o","n">>,
     scan_timestamp    |-> clock,
     confidence        |-> ocr_result.confidence]


\* ------------------------------------------------------------------------
\* The entry points and the values handed to them
\* ------------------------------------------------------------------------

\* An ocr_result is modelled as a record: kind tells whether the value is a
\* dictionary, None or a list; for each key the model keeps the value and,
\* beside it, whether the key holds a value of the expected type ("ok"), holds
\* None, holds a list, or is missing.
OcrResultA(text) ==
    [kind |-> "dict",
     text |-> text, textIs |-> "ok",
     structured_data |-> StructureTextA(text), dataIs |-> "ok"]

ResultB(result) ==
    [kind |-> "dict",
     cleaned_text |-> result.cleaned_text, textIs |-> "ok",
     structured_data |-> result.structured_data, dataIs |-> "ok",
     confidence |-> result.confidence, confidenceIs |-> "ok"]

OcrResultB(extracted_text, seed) == ResultB(ProcessTextB(extracted_text, seed))

\* the ways an ocr_result can be malformed
Defects ==
    {"ok", "None", "list", "noText", "textNone", "noData", "dataNone", "dataList", "noKeys"}

Damage(ocr_result, defect) ==
    CASE defect = "ok"       -> ocr_result
      [] defect = "None"     -> [ocr_result EXCEPT !.kind = "None"]
      [] defect = "list"     -> [ocr_result EXCEPT !.kind = "list"]
      [] defect = "noText"   -> [ocr_result EXCEPT !.textIs = "missing"]
      [] defect = "textNone" -> [ocr_result EXCEPT !.textIs = "None"]
      [] defect = "noData"   -> [ocr_result EXCEPT !.dataIs = "missing"]
      [] defect = "dataNone" -> [ocr_result EXCEPT !.dataIs = "None"]
      [] defect = "dataList" -> [ocr_result EXCEPT !.dataIs = "list"]
      [] defect = "noKeys"   ->
            IF "confidenceIs" \in DOMAIN ocr_result
            THEN [ocr_result EXCEPT !.textIs = "missing", !.dataIs = "missing",
                                    !.confidenceIs = "missing"]
            ELSE [ocr_result EXCEPT !.textIs = "missing", !.dataIs = "missing"]

\* what a call leaves behind: the value it returned, or the exception that
\* left it
Returned(value) == [st |-> "returned", value |-> value]
Raises(error)   == [st |-> "raised", error |-> error]
NotRun          == [st |-> "unset"]

\* the result of the except branch of extract_medicines; the model keeps the
\* class of the exception where the code keeps its message
ErrorResultA(error) ==
    [medicines |-> << >>, patient_info |-> << >>, error |-> error]

\* the scan types that extract_medicines routes to _extract_from_label:
\* "medicine label" in any case, and every type without the word prescription
IsLabelScan(scan_type) ==
    \/ Lower(scan_type) = <<"m","e","d","i","c","i","n","e"," ","l","a","b","e","l">>
    \/ ~Contains(Lower(scan_type), <<"p","r","e","s","c","r","i","p","t","i","o","n">>)

\* MedicineExtractor.extract_medicines.  ocr_result.get fails on None and on a list;
\* scan_type.lower() fails on None; a list for structured_data fails at its
\* first .get; a None text fails at text.split or text.lower().  Every one of
\* these is caught by the except branch.
ExtractMedicines(ocr_result, scan_type, clock) ==
    IF ocr_result.kind # "dict" THEN Returned(ErrorResultA(<<"A","t","t","r","i","b","u","t","e","E","r","r","o","r">>))
    ELSE IF scan_type = None THEN Returned(ErrorResultA(<<"A","t","t","r","i","b","u","t","e","E","r","r","o","r">>))
    ELSE IF ocr_result.dataIs = "list" THEN Returned(ErrorResultA(<<"A","t","t","r","i","b","u","t","e","E","r","r","o","r">>))
    ELSE IF ocr_result.textIs = "None" THEN Returned(ErrorResultA(<<"A","t","t","r","i","b","u","t","e","E","r","r","o","r">>))
    ELSE LET text == IF ocr_result.textIs = "missing" THEN << >> ELSE ocr_result.text
             structured_data == IF ocr_result.dataIs = "ok"
                                THEN ocr_result.structured_data
                                ELSE NoStructuredData
         IN  IF IsLabelScan(scan_type)
             THEN Returned(ExtractFromLabelA(text, structured_data, clock))
             ELSE Returned(ExtractFromPrescriptionA(text, clock))

\* the structured_data.get defaults of extract_from_label
EmptyStructuredDataB ==
    [medicine_names |-> << >>,
     dates          |-> [expiry |-> << >>, manufacturing |-> << >>, other |-> << >>],
     dosages        |-> << >>,
     batch_numbers  |-> << >>,
     manufacturer   |-> None]

\* extract_from_label reading its keys by subscript where the code reads them
\* with get and a default: a missing key is a KeyError
ExtractFromLabel_Subscript(ocr_result, clock) ==
    IF ocr_result.kind # "dict" THEN Raises(<<"T","y","p","e","E","r","r","o","r">>)
    ELSE IF ocr_result.textIs = "missing" \/ ocr_result.dataIs = "missing"
            \/ ocr_result.confidenceIs = "missing"
    THEN Raises(<<"K","e","y","E","r","r","o","r">>)
    ELSE IF ocr_result.dataIs \in {"None", "list"} THEN Raises(<<"A","t","t","r","i","b","u","t","e","E","r","r","o","r">>)
    ELSE IF ocr_result.textIs = "None" THEN Raises(<<"T","y","p","e","E","r","r","o","r">>)
    ELSE Returned(ExtractFromLabelB(
            [cleaned_text    |-> ocr_result.cleaned_text,
             structured_data |-> ocr_result.structured_data,
             confidence      |-> ocr_result.confidence],
            clock))

\* MedicineExtractor.extract_from_label of variant B.  Nothing catches here:
\* ocr_result.get fails on None and on a list, structured_data.get fails on
\* None and on a list, and re.search fails on a None text.
ExtractFromLabel(ocr_result, clock) ==
    IF ocr_result.kind # "dict" THEN Raises(<<"A","t","t","r","i","b","u","t","e","E","r","r","o","r">>)
    ELSE IF ocr_result.dataIs \in {"None", "list"} THEN Raises(<<"A","t","t","r","i","b","u","t","e","E","r","r","o","r">>)
    ELSE IF ocr_result.textIs = "None" THEN Raises(<<"T","y","p","e","E","r","r","o","r">>)
    ELSE Returned(ExtractFromLabelB(
            [cleaned_text    |-> IF ocr_result.textIs = "missing" THEN << >>
                                 ELSE ocr_result.cleaned_text,
             structured_data |-> IF ocr_result.dataIs = "missing" THEN EmptyStructuredDataB
                                 ELSE ocr_result.structured_data,
             confidence      |-> IF ocr_result.confidenceIs = "missing" THEN Float00
                                 ELSE ocr_result.confidence],
            clock))

\* MedicineExtractor.extract_from_prescription of variant B.  Nothing catches
\* here either: ocr_result.get fails on None and on a list, re.findall fails
\* on a None text, and structured_data.get fails on None and on a list.
ExtractFromPrescription(ocr_result, seed, clock) ==
    IF ocr_result.kind # "dict" THEN Raises(<<"A","t","t","r","i","b","u","t","e","E","r","r","o","r">>)
    ELSE IF ocr_result.textIs = "None" THEN Raises(<<"T","y","p","e","E","r","r","o","r">>)
    ELSE IF ocr_result.dataIs \in {"None", "list"} THEN Raises(<<"A","t","t","r","i","b","u","t","e","E","r","r","o","r">>)
    ELSE Returned(ExtractFromPrescriptionB(
            [cleaned_text    |-> IF ocr_result.textIs = "missing" THEN << >>
                                 ELSE ocr_result.cleaned_text,
             structured_data |-> IF ocr_result.dataIs = "missing" THEN EmptyStructuredDataB
                                 ELSE ocr_result.structured_data,
             confidence      |-> IF ocr_result.confidenceIs = "missing" THEN Float00
                                 ELSE ocr_result.confidence],
            seed, clock))


\* ------------------------------------------------------------------------
\* The medicines file: DatabaseHandler
\* ------------------------------------------------------------------------

\* An instant is a clock value with its hour of the day; the modelled instants
\* are whole hours, and midnight is the hour 0.
At(y, m, d, hour) == [y |-> y, m |-> m, d |-> d, midnight |-> hour = 0, hour |-> hour]

\* created_at and updated_at: the instant written by isoformat() and read
\* back by fromisoformat(), which returns the instant that was written; NoTime
\* where the key is absent
Time(instant) == [set |-> TRUE, at |-> instant]
NoTime == [set |-> FALSE]

\* (now - created).days, floored to whole days
AgeDays(created, now) ==
    ToOrdinal(now.y, now.m, now.d) - ToOrdinal(created.y, created.m, created.d)
        - (IF now.hour < created.hour THEN 1 ELSE 0)

DbDateFormats ==
    << <<"%Y","-","%m","-","%d">>, <<"%m","/","%Y">>, <<"%m","-","%Y">>,
       <<"%d","/","%m","/","%Y">> >>

\* the for ... else of _add_calculated_fields: the first format that parses
\* the string gives the day count, None when none does
DaysOfFormats(expiry_date, formats, clock) ==
    IF \A k \in DOMAIN formats : Strptime(expiry_date, formats[k]) = NoDate THEN NoDays
    ELSE KnownDays(DeltaDays(
            Strptime(expiry_date,
                     formats[CHOOSE k \in DOMAIN formats :
                                /\ Strptime(expiry_date, formats[k]) # NoDate
                                /\ \A j \in 1..(k - 1) :
                                      Strptime(expiry_date, formats[j]) = NoDate]),
            clock))

SoonDays == 7
MonthDays == 30

\* the expiry_status of a day count
ExpiryStatus(days) ==
    IF ~days.known THEN "unknown"
    ELSE IF days.days < 0 THEN "expired"
    ELSE IF days.days <= SoonDays THEN "expiring_soon"
    ELSE IF days.days <= MonthDays THEN "expiring_this_month"
    ELSE "safe"

\* the record with its days_until_expiry, and then its expiry_status, set
WithStatus(medicine, days) ==
    [medicine EXCEPT !.days_until_expiry = days, !.expiry_status = ExpiryStatus(days)]

\* the record with its record_age_days set
WithAge(medicine, clock) ==
    [medicine EXCEPT !.record_age_days =
        IF medicine.created_at.set THEN KnownDays(AgeDays(medicine.created_at.at, clock))
        ELSE NoDays]

\* the record as it stands in the file
AsStored(medicine, clock) == medicine

\* DatabaseHandler._add_calculated_fields: the record as the call leaves it
AddCalculatedFields(medicine, clock) ==
    WithAge(WithStatus(medicine,
                       IF Truthy(medicine.expiry_date)
                       THEN DaysOfFormats(medicine.expiry_date, DbDateFormats, clock)
                       ELSE NoDays),
            clock)

\* DatabaseHandler.load_medicines: the records of the file, each with its
\* calculated fields; a file that does not exist reads as the empty list
LoadMedicines(file, clock) == [k \in DOMAIN file |-> AddCalculatedFields(file[k], clock)]

\* str(uuid.uuid4()): an id no record saved before carries
Uuid(n) == <<"#">> \o Digits(n, 1)

\* the record save_medicine writes: id and created_at are set where the caller
\* left them out, updated_at is set always
Stamped(medicine_data, uuid, clock) ==
    [medicine_data EXCEPT
        !.id = IF medicine_data.id = None THEN uuid ELSE medicine_data.id,
        !.created_at = IF medicine_data.created_at.set THEN medicine_data.created_at
                       ELSE Time(clock),
        !.updated_at = Time(clock)]

\* the list with the record appended whether or not its id is there
AppendAlways(medicines, medicine) == Append(medicines, medicine)

\* the position of the first record that has the id, 0 when there is none
FirstWithId(medicines, id) ==
    IF \E k \in DOMAIN medicines : medicines[k].id = id
    THEN CHOOSE k \in DOMAIN medicines :
            medicines[k].id = id /\ \A j \in 1..(k - 1) : medicines[j].id # id
    ELSE 0

\* the list with the first record of the same id replaced, or the record
\* appended
Upsert(medicines, medicine) ==
    IF FirstWithId(medicines, medicine.id) # 0
    THEN [k \in DOMAIN medicines |->
            IF k = FirstWithId(medicines, medicine.id) THEN medicine ELSE medicines[k]]
    ELSE Append(medicines, medicine)

\* DatabaseHandler.save_medicine: the records of the file after the call,
\* which reads the file with load_medicines and writes back what it read
SaveMedicine(file, medicine_data, uuid, clock) ==
    Upsert(LoadMedicines(file, clock), Stamped(medicine_data, uuid, clock))

\* DatabaseHandler.delete_medicine: the records of the file after the call;
\* the file is written, with what load_medicines read, when a record went
DeleteMedicine(file, medicine_id, clock) ==
    IF \E k \in DOMAIN file : file[k].id = medicine_id
    THEN SelectSeq(LoadMedicines(file, clock), LAMBDA m : m.id # medicine_id)
    ELSE file

\* a record as a caller hands it to save_medicine; expiry_status "" and
\* record_age_days NoDays stand for keys the caller left out
MedicineData(id, expiry_date, days, created_at) ==
    [id |-> id, expiry_date |-> expiry_date, days_until_expiry |-> days,
     expiry_status |-> "", created_at |-> created_at, updated_at |-> NoTime,
     record_age_days |-> NoDays]

\* ------------------------------------------------------------------------
\* Reminders: moments, times of day, and ReminderSystem of
\* src/backend/reminder_system.py
\* ------------------------------------------------------------------------

\* A moment is a day number and a minute of that day; it is also what
\* isoformat() writes and fromisoformat() reads back.
MinutesPerDay == 24 * 60
Moment(day, minute) == [day |-> day, minute |-> minute]
IsAfter(a, b) == a.day > b.day \/ (a.day = b.day /\ a.minute > b.minute)
\* moment + timedelta(days=n)
PlusDays(moment, n) == Moment(moment.day + n, moment.minute)
\* the minutes from b to a
MinutesBetween(a, b) == (a.day - b.day) * MinutesPerDay + (a.minute - b.minute)

\* the order of the characters a time string is written with
CharOrder(c) == IF c \in DigitCs THEN DigitMap[c] ELSE IF c = ":" THEN 10 ELSE 11

\* a < b for str
RECURSIVE StrLess(_, _)
StrLess(a, b) ==
    IF Len(b) = 0 THEN FALSE
    ELSE IF Len(a) = 0 THEN TRUE
    ELSE IF a[1] # b[1] THEN CharOrder(a[1]) < CharOrder(b[1])
    ELSE StrLess(Tail(a), Tail(b))

\* sorted(list of str)
RECURSIVE InsertSorted(_, _)
InsertSorted(x, xs) ==
    IF Len(xs) = 0 THEN << x >>
    ELSE IF StrLess(x, xs[1]) THEN << x >> \o xs
    ELSE << xs[1] >> \o InsertSorted(x, Tail(xs))

RECURSIVE Sorted(_)
Sorted(xs) == IF Len(xs) = 0 THEN << >> ELSE InsertSorted(xs[Len(xs)], Sorted(SubSeq(xs, 1, Len(xs) - 1)))

\* datetime.strptime(s, '%H:%M').time() as a minute of the day, NoMinute
\* for ValueError: one or two digits up to 23, a colon, one or two digits up
\* to 59
NoMinute == 0 - 1
HourMinute(hh, mm) ==
    IF /\ Len(hh) \in {1, 2} /\ IsDigitStr(hh) /\ ParseInt(hh) <= 23
       /\ Len(mm) \in {1, 2} /\ IsDigitStr(mm) /\ ParseInt(mm) <= 59
    THEN ParseInt(hh) * 60 + ParseInt(mm)
    ELSE NoMinute
ParseTime(s) ==
    IF Find(s, <<":">>) < 0 THEN NoMinute
    ELSE HourMinute(Slice(s, 0, Find(s, <<":">>)), Slice(s, Find(s, <<":">>) + 1, Len(s)))

\* d.get(key, default) and key in d
Get(d, key, default) == IF key \in DOMAIN d THEN d[key] ELSE default

\* the first of the sorted times that parses and is later today than now,
\* NoMinute when there is none
RECURSIVE FirstLaterToday(_, _)
FirstLaterToday(sorted_times, now) ==
    IF Len(sorted_times) = 0 THEN NoMinute
    ELSE IF ParseTime(sorted_times[1]) # NoMinute /\ ParseTime(sorted_times[1]) > now.minute
         THEN ParseTime(sorted_times[1])
         ELSE FirstLaterToday(Tail(sorted_times), now)

\* the branch of _calculate_next_reminder_time taken when no time of today is left
FirstTimeTomorrow(sorted_times, now) ==
    IF ParseTime(sorted_times[1]) = NoMinute THEN PlusDays(now, 1)
    ELSE Moment(now.day + 1, ParseTime(sorted_times[1]))

\* ReminderSystem._calculate_next_reminder_time
CalculateNextReminderTime(reminder, now) ==
    IF Len(Get(reminder, "times", << >>)) = 0 THEN PlusDays(now, 1)
    ELSE IF FirstLaterToday(Sorted(reminder.times), now) # NoMinute
         THEN Moment(now.day, FirstLaterToday(Sorted(reminder.times), now))
         ELSE FirstTimeTomorrow(Sorted(reminder.times), now)

RequiredFields == {"medicine_name", "dosage", "frequency", "times"}
DefaultDurationDays == 30

\* the reminder create_reminder builds from the caller's dictionary
NewReminder(reminder_data, uuid, now) ==
    [id |-> uuid,
     medicine_id |-> Get(reminder_data, "medicine_id", uuid \o <<"m">>),
     medicine_name |-> reminder_data.medicine_name,
     dosage |-> reminder_data.dosage,
     frequency |-> reminder_data.frequency,
     times |-> reminder_data.times,
     start_date |-> Get(reminder_data, "start_date", now.day),
     duration_days |-> Get(reminder_data, "duration_days", DefaultDurationDays),
     instructions |-> Get(reminder_data, "instructions", << >>),
     active |-> Get(reminder_data, "active", TRUE),
     created_at |-> Get(reminder_data, "created_at", now),
     last_taken |-> None,
     missed_count |-> 0,
     taken_count |-> 0,
     next_reminder |-> CalculateNextReminderTime(reminder_data, now)]

HasId(reminders, id) == \E k \in DOMAIN reminders : reminders[k].id = id

\* the list with the first reminder of that id changed by the operator Change
ChangedFirst(reminders, id, Change(_)) ==
    [k \in DOMAIN reminders |->
        IF reminders[k].id = id /\ \A j \in 1..(k - 1) : reminders[j].id # id
        THEN Change(reminders[k]) ELSE reminders[k]]

\* the reminder as mark_taken leaves it
Taken(reminder, taken_time, now) ==
    [ [reminder EXCEPT !.last_taken = taken_time,
                       !.taken_count = reminder.taken_count + 1]
      EXCEPT !.next_reminder = CalculateNextReminderTime(reminder, now) ]

\* the reminder as mark_missed leaves it
Missed(reminder, now) ==
    [reminder EXCEPT !.missed_count = reminder.missed_count + 1,
                     !.next_reminder = CalculateNextReminderTime(reminder, now)]

Disabled(reminder) == [reminder EXCEPT !.active = FALSE]

\* the keys of updates that are keys of the reminder are assigned, in the
\* order of the dictionary
RECURSIVE Assigned(_, _)
Assigned(reminder, updates) ==
    IF Len(updates) = 0 THEN reminder
    ELSE Assigned(IF updates[1][1] \in DOMAIN reminder
                  THEN [reminder EXCEPT ![updates[1][1]] = updates[1][2]]
                  ELSE reminder,
                  Tail(updates))

TimingKeys == {"times", "frequency", "active"}

\* the reminder as update_reminder leaves it
Updated(reminder, updates, now) ==
    IF \E k \in DOMAIN updates : updates[k][1] \in TimingKeys
    THEN [Assigned(reminder, updates) EXCEPT
            !.next_reminder = CalculateNextReminderTime(Assigned(reminder, updates), now)]
    ELSE Assigned(reminder, updates)

\* the list delete_reminder keeps
RECURSIVE WithoutId(_, _)
WithoutId(reminders, id) ==
    IF Len(reminders) = 0 THEN << >>
    ELSE (IF reminders[1].id = id THEN << >> ELSE << reminders[1] >>)
            \o WithoutId(Tail(reminders), id)

MaxHistory == 1000

NameOfReminder(reminders, id) ==
    IF HasId(reminders, id)
    THEN reminders[CHOOSE k \in DOMAIN reminders :
                      reminders[k].id = id /\ \A j \in 1..(k - 1) : reminders[j].id # id
                  ].medicine_name
    ELSE <<"U","n","k","n","o","w","n">>

\* ReminderSystem._add_to_history: the history after the call
AddToHistory(history, reminders, reminder_id, action, timestamp, uuid) ==
    LET entry == [id |-> uuid, reminder_id |-> reminder_id,
                  medicine_name |-> NameOfReminder(reminders, reminder_id),
                  action |-> action, timestamp |-> timestamp]
    IN  IF Len(history) + 1 > MaxHistory
        THEN SubSeq(Append(history, entry), Len(history) + 2 - MaxHistory, Len(history) + 1)
        ELSE Append(history, entry)

HistoryDays == 90

\* the history cleanup_old_history keeps
RECURSIVE NotOlderThan(_, _)
NotOlderThan(history, cutoff) ==
    IF Len(history) = 0 THEN << >>
    ELSE (IF IsAfter(cutoff, history[1].timestamp) THEN << >> ELSE << history[1] >>)
            \o NotOlderThan(Tail(history), cutoff)

\* ------------------------------------------------------------------------
\* ReminderSystem of src/backend-reminder-system.py
\* ------------------------------------------------------------------------

\* reminder_time.strftime('%H:%M') of a time of day given as its minute
FormatTime(minute) == Digits(minute \div 60, 2) \o <<":">> \o Digits(minute % 60, 2)

\* (datetime.combine(today, reminder_time) + timedelta(hours=h)).time()
PlusHours(reminder_time, h) == (reminder_time + 60 * h) % MinutesPerDay

\* the loop of the "Three Times Daily" branch: the first of the times, in
\* the order of the list, that is later today than now
RECURSIVE FirstCandidate(_, _)
FirstCandidate(times, now) ==
    IF Len(times) = 0 THEN NoMinute
    ELSE IF times[1] > now.minute THEN times[1]
    ELSE FirstCandidate(Tail(times), now)

ThreeTimes(reminder_time) ==
    << reminder_time, PlusHours(reminder_time, 8), PlusHours(reminder_time, 16) >>

\* ReminderSystem._calculate_next_reminder, now being datetime.now()
CalculateNextReminder(reminder_type, reminder_time, now) ==
    IF reminder_type = <<"D","a","i","l","y">>
    THEN IF reminder_time <= now.minute
         THEN Moment(now.day + 1, reminder_time)
         ELSE Moment(now.day, reminder_time)
    ELSE IF reminder_type = <<"T","w","i","c","e"," ","D","a","i","l","y">>
    THEN IF now.minute < reminder_time THEN Moment(now.day, reminder_time)
         ELSE IF now.minute < PlusHours(reminder_time, 12)
              THEN Moment(now.day, PlusHours(reminder_time, 12))
              ELSE Moment(now.day + 1, reminder_time)
    ELSE IF reminder_type = <<"T","h","r","e","e"," ","T","i","m","e","s"," ","D","a","i","l","y">>
    THEN IF FirstCandidate(ThreeTimes(reminder_time), now) # NoMinute
         THEN Moment(now.day, FirstCandidate(ThreeTimes(reminder_time), now))
         ELSE Moment(now.day + 1, reminder_time)
    ELSE IF reminder_type = <<"W","e","e","k","l","y">>
    THEN Moment(now.day + 7, reminder_time)
    ELSE Moment(now.day + 1, reminder_time)

\* the 'times' create_reminder adds for the types that have several
TimesOfType(reminder_type, reminder_time) ==
    IF reminder_type = <<"T","w","i","c","e"," ","D","a","i","l","y">>
    THEN << FormatTime(reminder_time), FormatTime(PlusHours(reminder_time, 12)) >>
    ELSE IF reminder_type = <<"T","h","r","e","e"," ","T","i","m","e","s"," ","D","a","i","l","y">>
    THEN << FormatTime(reminder_time), FormatTime(PlusHours(reminder_time, 8)),
            FormatTime(PlusHours(reminder_time, 16)) >>
    ELSE << >>

DefaultReminderTime == 9 * 60

\* the reminder create_reminder builds, reminder_time being NoMinute for None
CreatedReminder(medicine_info, reminder_type, reminder_time, uuid, now) ==
    [id |-> uuid,
     medicine_name |-> Get(medicine_info, "name", <<"U","n","k","n","o","w","n"," ","M","e","d","i","c","i","n","e">>),
     type |-> reminder_type,
     time |-> FormatTime(IF reminder_time = NoMinute THEN DefaultReminderTime ELSE reminder_time),
     active |-> TRUE,
     created_date |-> now,
     last_taken |-> None,
     next_reminder |->
         CalculateNextReminder(reminder_type,
             IF reminder_time = NoMinute THEN DefaultReminderTime ELSE reminder_time, now),
     expiry_date |-> Get(medicine_info, "expiry_date", None),
     times |->
         TimesOfType(reminder_type,
             IF reminder_time = NoMinute THEN DefaultReminderTime ELSE reminder_time),
     missed_count |-> 0,
     taken_count |-> 0]

\* the test of check_due_reminders: active, and next_reminder not more than
\* 900 seconds from now on either side
DueWindowMinutes == 15
IsDue(reminder, now) ==
    /\ reminder.active
    /\ MinutesBetween(reminder.next_reminder, now) >= 0 - DueWindowMinutes
    /\ MinutesBetween(reminder.next_reminder, now) <= DueWindowMinutes

\* the reminder after check_due_reminders has looked at it
Rescheduled(reminder, now) ==
    [reminder EXCEPT !.next_reminder =
        CalculateNextReminder(reminder.type, ParseTime(reminder.time), now)]
AfterCheck(reminder, now) == IF IsDue(reminder, now) THEN Rescheduled(reminder, now) ELSE reminder

\* (expiry_date - datetime.now().date()).days: both are dates
DaysBetweenDates(dt, clock) ==
    ToOrdinal(dt.y, dt.m, dt.d) - ToOrdinal(clock.y, clock.m, clock.d)

HighUrgencyDays == 3
MediumUrgencyDays == 7
Urgency(days) ==
    IF days <= HighUrgencyDays THEN "high" ELSE IF days <= MediumUrgencyDays THEN "medium" ELSE "low"

\* the reminder has an expiry_date that parses and is not after the cutoff
IsAlerted(reminder, days_ahead, clock) ==
    /\ Get(reminder, "expiry_date", None) \notin {None, << >>}
    /\ Strptime(reminder.expiry_date, <<"%Y","-","%m","-","%d">>) # NoDate
    /\ DaysBetweenDates(Strptime(reminder.expiry_date, <<"%Y","-","%m","-","%d">>), clock)
          <= days_ahead

ExpiryAlert(reminder, clock) ==
    [medicine_name |-> reminder.medicine_name,
     expiry_date |-> reminder.expiry_date,
     days_until_expiry |->
         DaysBetweenDates(Strptime(reminder.expiry_date, <<"%Y","-","%m","-","%d">>), clock),
     reminder_id |-> reminder.id,
     urgency |->
         Urgency(DaysBetweenDates(Strptime(reminder.expiry_date, <<"%Y","-","%m","-","%d">>), clock))]

\* sorted(alerts, key=lambda x: x['days_until_expiry']), which is stable
RECURSIVE InsertAlert(_, _)
InsertAlert(alert, alerts) ==
    IF Len(alerts) = 0 THEN << alert >>
    ELSE IF alert.days_until_expiry < alerts[1].days_until_expiry THEN << alert >> \o alerts
    ELSE << alerts[1] >> \o InsertAlert(alert, Tail(alerts))
RECURSIVE SortedAlerts(_)
SortedAlerts(alerts) ==
    IF Len(alerts) = 0 THEN << >>
    ELSE InsertAlert(alerts[Len(alerts)], SortedAlerts(SubSeq(alerts, 1, Len(alerts) - 1)))

\* ReminderSystem.get_expiry_alerts
GetExpiryAlerts(reminders, days_ahead, clock) ==
    SortedAlerts([k \in 1..Len(SelectSeq(reminders, LAMBDA r : IsAlerted(r, days_ahead, clock))) |->
                    ExpiryAlert(SelectSeq(reminders, LAMBDA r : IsAlerted(r, days_ahead, clock))[k],
                                clock)])

\* ------------------------------------------------------------------------
\* The scan history of DatabaseHandler; its timestamps are moments
\* ------------------------------------------------------------------------

\* The entries save_scan_history keeps. The source keeps 500 (history[-500:]);
\* the model keeps this many, so that a few saves reach the limit.
KeptEntries == 3

\* the entry save_scan_history builds from the caller's dictionary
ScanEntry(scan_data, uuid, now) ==
    [id |-> uuid,
     timestamp |-> now,
     scan_type |-> Get(scan_data, "scan_type", <<"u","n","k","n","o","w","n">>),
     success |-> Get(scan_data, "success", FALSE),
     medicines_found |-> Get(scan_data, "medicines_found", 0),
     confidence |-> Get(scan_data, "confidence", 0),
     ocr_engine |-> Get(scan_data, "ocr_engine", <<"u","n","k","n","o","w","n">>),
     processing_time |-> Get(scan_data, "processing_time", 0),
     error |-> Get(scan_data, "error", None)]

\* history[-500:] when len(history) > 500, and the entries it leaves out
LastKept(history) ==
    IF Len(history) > KeptEntries
    THEN SubSeq(history, Len(history) - KeptEntries + 1, Len(history))
    ELSE history
CutOff(history) ==
    IF Len(history) > KeptEntries THEN SubSeq(history, 1, Len(history) - KeptEntries)
    ELSE << >>

\* the file after DatabaseHandler.save_scan_history
SaveScanHistory(history, scan_data, uuid, now) ==
    LastKept(Append(history, ScanEntry(scan_data, uuid, now)))

\* sorted(history, key=lambda x: x['timestamp'], reverse=True): the newest
\* first, entries of one timestamp in the order they had
RECURSIVE InsertNewestFirst(_, _)
InsertNewestFirst(entry, entries) ==
    IF Len(entries) = 0 THEN << entry >>
    ELSE IF IsAfter(entry.timestamp, entries[1].timestamp) THEN << entry >> \o entries
    ELSE << entries[1] >> \o InsertNewestFirst(entry, Tail(entries))
RECURSIVE NewestFirst(_)
NewestFirst(entries) ==
    IF Len(entries) = 0 THEN << >>
    ELSE InsertNewestFirst(entries[Len(entries)],
                           NewestFirst(SubSeq(entries, 1, Len(entries) - 1)))

\* the entries stamped at or after now - timedelta(days)
NotBeforeCutoff(entries, days, now) ==
    SelectSeq(entries, LAMBDA e : ~IsAfter(PlusDays(now, 0 - days), e.timestamp))

\* DatabaseHandler.get_scan_history
GetScanHistory(history, days, now) ==
    NewestFirst(IF days > 0 THEN NotBeforeCutoff(history, days, now) ELSE history)

\* the scan history part of DatabaseHandler.cleanup_old_data: the file is
\* rewritten, with what get_scan_history(days=0) returned less the old
\* entries, when an entry was removed
CleanedScanHistory(history, days_old, now) ==
    IF Len(NotBeforeCutoff(GetScanHistory(history, 0, now), days_old, now)) < Len(history)
    THEN NotBeforeCutoff(GetScanHistory(history, 0, now), days_old, now)
    ELSE history

\* ------------------------------------------------------------------------
\* State
\* ------------------------------------------------------------------------

VARIABLES
    dateIn,     \* the parts a raw date string is written from
    normA,      \* _normalize_date(date string) of variant A, Unset before the call
    normB,      \* _normalize_date(date string) of variant B, Unset before the call
    text,       \* the text the OCR engine read from the label
    defect,     \* the way the ocr_result handed to the extractor is malformed
    scanType,   \* the scan_type argument of extract_medicines
    hashSeed,   \* the string-hash seed of the running interpreter process
    clock,      \* what datetime.now() returns
    outA,       \* what extract_medicines (variant A) left behind
    outB,       \* what the last extract_from_label (variant B) left behind
    prevB,      \* what the extract_from_label before the last left behind
    nameOut,    \* the name candidates of the text and the name selected
    rxOutA,     \* what extract_medicines left behind on a prescription
    rxOutB,     \* what extract_from_prescription (variant B) left behind
    sdIn,       \* the structured_data handed to _calculate_confidence
    confA,      \* what _calculate_confidence (variant A) returned
    confB,      \* what calculate_confidence (OCR processor of variant B) returned
    expIn,      \* the expiry_date a day count is computed for
    daysB,      \* what _calculate_days_until_expiry returned
    daysDb,     \* the record _add_calculated_fields left behind
    stored,     \* the records of the medicines file
    loaded,     \* what the last load_medicines returned, and the clock of that read
    datesOut,   \* what extract_dates returned
    doseOut,    \* what extract_dosages and _extract_primary_dosage returned
    cleanOut,   \* what clean_text returned
    remA,       \* ReminderSystem.reminders (src/backend/reminder_system.py)
    histA,      \* ReminderSystem.reminder_history
    fileA,      \* what the reminders and history files hold
    lockA,      \* the thread that holds ReminderSystem._lock, "free" when none
    callA,      \* the call the thread is in: operation, position, return value
    lexicons,   \* medicine_database, medicine_forms and dosage_units of the extractors
    running,    \* the extraction call each thread is in, "none" outside a call
    isSpeaking, \* VoiceAssistant.is_speaking
    speakLock,  \* the holder of VoiceAssistant._speak_lock, "free" when none
    engine,     \* whether pyttsx3.init() gave VoiceAssistant.engine
    callV,      \* the speak or stop_speaking call the calling thread is in
    speech,     \* the position of each thread started on _speak_sync
    remB,       \* ReminderSystem.reminders (src/backend-reminder-system.py)
    fileB,      \* what the reminders file of that system holds
    nextB,      \* the last call of _calculate_next_reminder: arguments, clock, result
    dueB,       \* the reminders the last check_due_reminders found due: id and occurrence
    returnedB,  \* the ids and occurrences the check_due_reminders calls before it returned
    alertsOut,  \* what get_expiry_alerts returned
    scanFile,   \* the entries of the scan history file, in the order of the file
    scanDropped, \* the entries the last save_scan_history cut off
    scanOut,    \* the last call on the scan history and what it returned
    scanSaves,  \* the number of save_scan_history calls made
    held,       \* the dictionary the caller handed to the last save_medicine, as the call left it
    uuids,      \* the number of ids uuid.uuid4() has given
    storeCall   \* the last save_medicine or delete_medicine: its argument, the file before it, its instant

normVars  == <<dateIn, normA, normB>>
labelVars == <<text, defect, scanType, hashSeed, clock, outA, outB, prevB>>
rxVars    == <<rxOutA, rxOutB>>
confVars  == <<sdIn, confA, confB>>
daysVars  == <<expIn, daysB, daysDb>>
dbVars    == <<stored, loaded>>
fnVars    == <<datesOut, doseOut, cleanOut>>
remAVars  == <<remA, histA, fileA, lockA, callA>>
\* the variables of the specifications of the last part of the module
lexVars   == <<lexicons, running>>
voiceVars == <<isSpeaking, speakLock, engine, callV, speech>>
remBVars == <<remB, fileB, nextB, dueB, returnedB>>
alertVars == <<alertsOut>>
scanVars == <<scanFile, scanDropped, scanOut, scanSaves>>
storeVars == <<held, uuids, storeCall>>
lateVars  == <<remAVars, lexVars, voiceVars, remBVars, alertVars, scanVars, storeVars>>
\* the variables of the specifications of the second half of the module, and
\* all of them but one group
restVars   == <<rxVars, confVars, daysVars, dbVars, fnVars, lateVars>>
exceptRx   == <<confVars, daysVars, dbVars, fnVars, lateVars>>
exceptConf == <<rxVars, daysVars, dbVars, fnVars, lateVars>>
exceptDays == <<rxVars, confVars, dbVars, fnVars, lateVars>>
exceptDb   == <<rxVars, confVars, daysVars, fnVars, lateVars>>
exceptFn   == <<rxVars, confVars, daysVars, dbVars, lateVars>>
vars == <<dateIn, normA, normB, text, defect, scanType, hashSeed, clock,
          outA, outB, prevB, nameOut, restVars>>

\* a result that has not been computed yet
Unset == <<"Unset">>

\* ------------------------------------------------------------------------
\* Raw date strings as they stand on a label
\* ------------------------------------------------------------------------

\* a numeric date a/b/y: pad tells whether a and b are written with two digits,
\* yw is the number of digits of the year
NumericDate(a, s1, b, s2, y, yw, pad) ==
    [shape |-> "num", a |-> a, b |-> b, y |-> y, yw |-> yw,
     s1 |-> s1, s2 |-> s2, pad |-> pad]

\* a date with a month name: "25 Dec 2025" (dayFirst) or "Dec 25 2025",
\* the name in full or abbreviated, an optional comma after the day
NamedDate(d, mon, y, dayFirst, full, comma) ==
    [shape |-> "named", a |-> d, b |-> mon, y |-> y, yw |-> 4,
     s1 |-> IF dayFirst THEN "d" ELSE "m", s2 |-> IF comma THEN "," ELSE "",
     pad |-> full]

\* a month and a year only: "03/2025"
MonthYear(m, s1, y) ==
    [shape |-> "my", a |-> m, b |-> 0, y |-> y, yw |-> 4,
     s1 |-> s1, s2 |-> "", pad |-> TRUE]

Capitalize(s) == [k \in 1..Len(s) |-> IF k = 1 THEN UpperChar(s[k]) ELSE s[k]]

\* the characters of a raw date
Render(r) ==
    CASE r.shape = "num" ->
            Digits(r.a, IF r.pad THEN 2 ELSE 1) \o <<r.s1>>
                \o Digits(r.b, IF r.pad THEN 2 ELSE 1) \o <<r.s2>> \o Digits(r.y, r.yw)
      [] r.shape = "my" -> Digits(r.a, 2) \o <<r.s1>> \o Digits(r.y, 4)
      [] r.shape = "named" ->
            LET name == Capitalize(IF r.pad THEN MonthNames[r.b] ELSE MonthAbbr(r.b))
                day  == Digits(r.a, 2) \o (IF r.s2 = "," THEN <<",">> ELSE << >>)
            IN  IF r.s1 = "d" THEN Digits(r.a, 2) \o <<" ">> \o name \o <<" ">> \o Digits(r.y, 4)
                ELSE name \o <<" ">> \o day \o <<" ">> \o Digits(r.y, 4)

\* the day and month values written on the modelled labels
FieldValues == {1, 2, 12, 13, 29, 31, 32}
TwoDigitYears == {0, 49, 50, 68, 69, 99}
FourDigitYears == {1600, 1949, 1950, 2024, 2025}
SeparatorPairs == {<<"/", "/">>, <<"-", "-">>, <<"/", "-">>}

NumericDates ==
    {NumericDate(a, sp[1], b, sp[2], y, 2, TRUE) :
        a \in FieldValues, b \in FieldValues, y \in TwoDigitYears, sp \in SeparatorPairs}
    \cup
    {NumericDate(a, sp[1], b, sp[2], y, 4, TRUE) :
        a \in FieldValues, b \in FieldValues, y \in FourDigitYears, sp \in SeparatorPairs}
    \cup
    {NumericDate(a, "/", b, "/", y, 4, FALSE) : a \in {2, 9}, b \in {2, 9}, y \in {1950, 2025}}

NamedDates ==
    {NamedDate(d, mon, 2025, df, full, comma) :
        d \in {5, 31}, mon \in {2, 5, 12}, df \in BOOLEAN, full \in BOOLEAN,
        comma \in BOOLEAN}

MonthYears == {MonthYear(m, s1, 2025) : m \in {3, 12, 13}, s1 \in {"/", "-"}}

RawDates == NumericDates \cup NamedDates \cup MonthYears

\* ------------------------------------------------------------------------
\* The date normalizers applied to one raw date string
\* ------------------------------------------------------------------------

\* the values of the variables a specification does not use
IdleNorm  == dateIn = MonthYear(1, "/", 2025) /\ normA = Unset /\ normB = Unset
IdleLabel ==
    /\ text = << >> /\ defect = "ok" /\ scanType = None /\ hashSeed = 0
    /\ clock = [y |-> 2025, m |-> 1, d |-> 1, midnight |-> TRUE]
    /\ outA = NotRun /\ outB = NotRun /\ prevB = NotRun
IdleName  == nameOut = NotRun
IdleRx    == rxOutA = NotRun /\ rxOutB = NotRun
IdleConf  == sdIn = NoStructuredData /\ confA = NotRun /\ confB = NotRun
IdleDays  == expIn = None /\ daysB = NotRun /\ daysDb = NotRun
IdleDb    == stored = << >> /\ loaded = NotRun
IdleFn    == datesOut = NotRun /\ doseOut = NotRun /\ cleanOut = NotRun
\* no call was made to the reminder system, and nothing is in it
NoCall == [op |-> "none", at |-> "idle"]
NoFile == [exists |-> FALSE]
IdleRemA ==
    remA = << >> /\ histA = << >> /\ fileA = NoFile /\ lockA = "free" /\ callA = NoCall
\* the lexicons as the constructors build them
ConstructedLexicons ==
    [medicine_database |-> MedicineDatabase, medicine_forms |-> MedicineForms,
     dosage_units |-> DosageUnits]
Threads == {1, 2}
IdleLex == lexicons = ConstructedLexicons /\ running = [t \in Threads |-> "none"]
\* the voice assistant as its constructor leaves it, the engine initialised
IdleVoice ==
    isSpeaking = FALSE /\ speakLock = "free" /\ engine = TRUE /\ callV = NoCall /\ speech = << >>
\* the other reminder system with no file to load and no call made
IdleRemB ==
    remB = << >> /\ fileB = NoFile /\ nextB = NotRun /\ dueB = NotRun /\ returnedB = {}
IdleAlert ==
    alertsOut = NotRun
\* the scan history file as _initialize_files writes it, no call made
IdleScan ==
    scanFile = << >> /\ scanDropped = << >> /\ scanOut = NotRun /\ scanSaves = 0
\* no medicine was saved or deleted
IdleStore ==
    held = NotRun /\ uuids = 0 /\ storeCall = NoCall
IdleLate  == IdleRemA /\ IdleLex /\ IdleVoice /\ IdleRemB /\ IdleAlert /\ IdleScan /\ IdleStore
IdleRest  == IdleRx /\ IdleConf /\ IdleDays /\ IdleDb /\ IdleFn /\ IdleLate

InitNorm ==
    /\ dateIn \in RawDates
    /\ normA = Unset
    /\ normB = Unset
    /\ IdleLabel /\ IdleName /\ IdleRest

NormalizeA ==
    /\ normA = Unset
    /\ normA' = NormalizeDateA(Render(dateIn))
    /\ UNCHANGED <<dateIn, normB, labelVars, nameOut, restVars>>

NormalizeB ==
    /\ normB = Unset
    /\ normB' = NormalizeDateB(Render(dateIn))
    /\ UNCHANGED <<dateIn, normA, labelVars, nameOut, restVars>>

NextNorm == NormalizeA \/ NormalizeB

SpecNorm == InitNorm /\ [][NextNorm]_vars

\* ------------------------------------------------------------------------
\* The label pipeline on one text
\* ------------------------------------------------------------------------

\* the dates printed on the modelled labels
LabelDates ==
    {NumericDate(a, "/", b, "/", 2025, 4, TRUE) :
        a \in {3, 5, 12, 13, 25, 31}, b \in {2, 3, 12, 25}}
    \cup
    { NumericDate(5, "/", 3, "/", 25, 2, TRUE),
      NumericDate(5, "-", 3, "-", 2025, 4, TRUE),
      NumericDate(5, "/", 3, "/", 2025, 4, FALSE),
      NumericDate(2, "/", 29, "/", 2024, 4, TRUE),
      MonthYear(3, "/", 2025),
      NamedDate(25, 12, 2025, TRUE, FALSE, FALSE),
      NamedDate(25, 12, 2025, FALSE, FALSE, TRUE) }

DateKeywords == { <<"E","x","p",":"," ">>, <<"M","f","g",":"," ">> }

\* labels with more than one dosage, batch number or date, and the empty text
OtherLabels ==
    { << >>,
      <<"D","e","c"," ","2","0","2","5">>,
      <<"E","x","p",":"," ","D","e","c"," ","2","0","2","5">>,
      <<"D","o","l","o"," ","5"," ","m","g"," ","1","0"," ","m","l">>,
      <<"B","a","t","c","h",":"," ","A","1"," ","L","o","t",":"," ","B","2">>,
      <<"E","x","p"," ","1","/","2","/","2","0","2","5"," ","E","x","p"," ","3","/","4","/","2","0","2","5">>,
      <<"M","f","g"," ","0","1","/","0","2","/","2","0","2","4"," ","E","x","p"," ","0","1","/","0","2","/","2","0","2","6">> }

LabelTexts ==
    {kw \o Render(d) : kw \in DateKeywords, d \in LabelDates} \cup OtherLabels

\* the number of hash seeds told apart: each stands for one order in which a
\* set of strings is listed
NumHashSeeds == 2
HashSeeds == 0..(NumHashSeeds - 1)

Clocks ==
    { [y |-> 2025, m |-> 3, d |-> 4, midnight |-> FALSE],
      [y |-> 2026, m |-> 1, d |-> 1, midnight |-> TRUE] }

InitLabel ==
    /\ text \in LabelTexts
    /\ defect = "ok"
    /\ scanType = <<"M","e","d","i","c","i","n","e"," ","L","a","b","e","l">>
    /\ hashSeed \in HashSeeds
    /\ clock \in Clocks
    /\ outA = NotRun /\ outB = NotRun /\ prevB = NotRun
    /\ IdleNorm /\ IdleName /\ IdleRest

\* variant A: structure_text of the OCR processor, then extract_medicines
ScanA ==
    /\ outA.st = "unset"
    /\ outA' = ExtractMedicines(Damage(OcrResultA(text), defect), scanType, clock)
    /\ UNCHANGED <<text, defect, scanType, hashSeed, clock, outB, prevB, normVars, nameOut, restVars>>

\* variant B: clean_text, structure_text and calculate_confidence of the OCR
\* processor, then extract_from_label; the pipeline is run at most twice
ScanB ==
    /\ prevB.st = "unset"
    /\ outB' = ExtractFromLabel(Damage(OcrResultB(text, hashSeed), defect), clock)
    /\ prevB' = outB
    /\ UNCHANGED <<text, defect, scanType, hashSeed, clock, outA, normVars, nameOut, restVars>>

\* the interpreter is started again between two runs: the new process draws
\* its own string-hash seed
Restart ==
    /\ outB.st # "unset" /\ prevB.st = "unset"
    /\ \E seed \in HashSeeds : seed # hashSeed /\ hashSeed' = seed
    /\ UNCHANGED <<text, defect, scanType, clock, outA, outB, prevB, normVars, nameOut, restVars>>

NextLabel == ScanA \/ ScanB \/ Restart

SpecLabel == InitLabel /\ [][NextLabel]_vars

\* ------------------------------------------------------------------------
\* The entry points on malformed results
\* ------------------------------------------------------------------------

EntryTexts == { << >>, <<"E","x","p",":"," ","0","5","/","0","3","/","2","0","2","5">>, <<"D","o","l","o"," ","5"," ","m","g">>, <<"D","o","l","o","\n","E","x","p",":"," ","0","5","/","0","3","/","2","5">> }

\* scan types routed to the label extraction, and a scan_type of None
ScanTypes == { <<"M","e","d","i","c","i","n","e"," ","L","a","b","e","l">>, <<"m","e","d","i","c","i","n","e"," ","l","a","b","e","l">>, <<"U","n","k","n","o","w","n">>, None }

InitEntry ==
    /\ text \in EntryTexts
    /\ defect \in Defects
    /\ scanType \in ScanTypes
    /\ hashSeed \in HashSeeds
    /\ clock \in Clocks
    /\ outA = NotRun /\ outB = NotRun /\ prevB = NotRun
    /\ IdleNorm /\ IdleName /\ IdleRest

SpecEntry == InitEntry /\ [][NextLabel]_vars


\* ------------------------------------------------------------------------
\* The name selection on one text
\* ------------------------------------------------------------------------

\* what a text is put together from: the two names of the scoring example,
\* an ALL-CAPS word and a capitalized word of the same length, a name with a
\* form suffix, and a name written twice in different case
NamePieces ==
    { <<"P","a","r","a","c","e","t","a","m","o","l"," ","5","0","0"," ","m","g">>, <<"P","a","n","a","d","o","l">>, <<"A","B","C","D">>, <<"E","f","g","h">>, <<"D","o","l","o"," ","T","a","b">>, <<"P","A","N","A","D","O","L">> }

NameSeparators == { <<" ">>, <<","," ">> }

\* nothing, or five short names in front
NamePrefixes == { << >>, <<"A","b","c",".","B","c","d",".","C","d","e",".","D","e","f",".","E","f","g",".">> }

NameTexts ==
    {pre \o a \o sep \o b :
        pre \in NamePrefixes, a \in NamePieces, sep \in NameSeparators, b \in NamePieces}

InitName ==
    /\ text \in NameTexts
    /\ nameOut = NotRun
    /\ defect = "ok" /\ scanType = None /\ hashSeed = 0
    /\ clock = [y |-> 2025, m |-> 1, d |-> 1, midnight |-> TRUE]
    /\ outA = NotRun /\ outB = NotRun /\ prevB = NotRun
    /\ IdleNorm /\ IdleRest

\* the candidates, their scores and the name selected among them
NameChoice(cleaned_text, candidate_names) ==
    [st         |-> "selected",
     text       |-> cleaned_text,
     candidates |-> candidate_names,
     scores     |-> NameScores(candidate_names, cleaned_text),
     selected   |-> ExtractMedicineNameB(candidate_names, cleaned_text)]

\* extract_medicine_names, then _extract_medicine_name, on a cleaned text
SelectedName(cleaned_text) == NameChoice(cleaned_text, ExtractMedicineNames(cleaned_text))

\* clean_text, extract_medicine_names and _extract_medicine_name on the text
SelectName ==
    /\ nameOut.st = "unset"
    /\ nameOut' = SelectedName(CleanText(text))
    /\ UNCHANGED <<labelVars, normVars, restVars>>

NextName == SelectName

SpecName == InitName /\ [][NextName]_vars


\* ------------------------------------------------------------------------
\* The prescription extraction on a text of three lines
\* ------------------------------------------------------------------------

\* what a line of a modelled prescription reads: lines with a dosage unit
\* and a frequency, with and without a word left for a name, a "Tab." entry,
\* a line of four characters and a line without digit or unit
RxLines ==
    { <<"D","o","l","o"," ","5"," ","m","g">>, <<"t","a","k","e"," ","5"," ","m","g"," ","d","a","i","l","y">>, <<"T","a","b","."," ","A","b","c"," ","1","0"," ","m","g">>, <<"Z","i","n","c"," ","t","w","i","c","e"," ","d","a","i","l","y">>,
      <<"5"," ","m","g">> }

RxTexts == {a \o <<"\n">> \o b \o <<"\n">> \o c : a \in RxLines, b \in RxLines, c \in RxLines}

InitRx ==
    /\ text \in RxTexts
    /\ defect = "ok"
    /\ scanType = <<"P","r","e","s","c","r","i","p","t","i","o","n">>
    /\ hashSeed \in HashSeeds
    /\ clock = [y |-> 2025, m |-> 3, d |-> 4, midnight |-> FALSE]
    /\ outA = NotRun /\ outB = NotRun /\ prevB = NotRun
    /\ rxOutA = NotRun /\ rxOutB = NotRun
    /\ IdleNorm /\ IdleName /\ IdleConf /\ IdleDays /\ IdleDb /\ IdleFn /\ IdleLate

\* variant A: extract_medicines on the OCR result of the prescription
ScanRxA ==
    /\ rxOutA.st = "unset"
    /\ rxOutA' = ExtractMedicines(Damage(OcrResultA(text), defect), scanType, clock)
    /\ UNCHANGED <<labelVars, normVars, nameOut, rxOutB, exceptRx>>

\* variant B: clean_text, structure_text and calculate_confidence of the OCR
\* processor, then extract_from_prescription
ScanRxB ==
    /\ rxOutB.st = "unset"
    /\ rxOutB' = ExtractFromPrescription(Damage(OcrResultB(text, hashSeed), defect),
                                         hashSeed, clock)
    /\ UNCHANGED <<labelVars, normVars, nameOut, rxOutA, exceptRx>>

NextRx == ScanRxA \/ ScanRxB

SpecRx == InitRx /\ [][NextRx]_vars


\* ------------------------------------------------------------------------
\* The two confidence functions on their inputs
\* ------------------------------------------------------------------------

\* a field of structured_data that holds a value, and one that holds none
PresentOrAbsent == { <<"x">>, None }

\* every combination of the five fields _calculate_confidence reads
StructuredInputs ==
    [medicine_name : PresentOrAbsent, dosage : PresentOrAbsent, expiry_date : PresentOrAbsent,
     batch_number : PresentOrAbsent, manufacturer : PresentOrAbsent,
     mfg_date : {None}, quantity : {None}]

\* texts of up to 20 and of more than 20 characters, with none, some and all
\* of the signals calculate_confidence looks for
ConfidenceTexts ==
    { << >>, <<"a","b","c">>, <<"t","a","b","l","e","t"," ","m","g"," ","e","x","p">>, <<"e","x","p"," ","0","1","/","0","2","/","2","0","2","5"," ","l","o","t"," ","m","g">>,
      <<"a"," ","b"," ","c"," ","d"," ","e"," ","f"," ","g"," ","h"," ","i"," ","j"," ","k"," ","l">>, <<"t","a","b","l","e","t"," ","c","a","p","s","u","l","e"," ","m","l"," ","e","x","p"," ","1","/","2","/","2","5"," ","5"," ","m","g">> }

InitConf ==
    /\ text \in ConfidenceTexts
    /\ sdIn \in StructuredInputs
    /\ confA = NotRun /\ confB = NotRun
    /\ defect = "ok" /\ scanType = None /\ hashSeed = 0
    /\ clock = [y |-> 2025, m |-> 1, d |-> 1, midnight |-> TRUE]
    /\ outA = NotRun /\ outB = NotRun /\ prevB = NotRun
    /\ IdleNorm /\ IdleName /\ IdleRx /\ IdleDays /\ IdleDb /\ IdleFn /\ IdleLate

\* MedicineExtractor._calculate_confidence(text, structured_data)
ConfidenceA ==
    /\ confA.st = "unset"
    /\ confA' = Returned(CalculateConfidenceA(text, sdIn))
    /\ UNCHANGED <<labelVars, normVars, nameOut, sdIn, confB, exceptConf>>

\* OCRProcessor.calculate_confidence(text)
ConfidenceB ==
    /\ confB.st = "unset"
    /\ confB' = Returned(CalculateConfidenceB(text))
    /\ UNCHANGED <<labelVars, normVars, nameOut, sdIn, confA, exceptConf>>

NextConf == ConfidenceA \/ ConfidenceB

SpecConf == InitConf /\ [][NextConf]_vars



\* ------------------------------------------------------------------------
\* The day count of one expiry date at one instant
\* ------------------------------------------------------------------------

ExpiryInputs ==
    { <<"2","0","2","5","-","0","3","-","0","4">>, <<"2","0","2","5","-","0","3","-","0","5">>, <<"2","0","2","5","-","0","3","-","0","6">>, <<"2","0","2","4","-","0","2","-","2","9">>,
      <<"2","0","2","5","-","1","2","-","3","1">>, <<"2","0","2","6","-","0","1","-","0","1">>, <<"2","0","2","5","-","0","2","-","3","0">>, <<"0","3","/","2","0","2","5">>, <<"0","3","-","2","0","2","5">>,
      <<"0","5","/","0","3","/","2","0","2","5">>, <<"s","o","o","n">>, << >>, None }

DayHours == {0, 1, 12, 23}

Instants ==
    {At(2025, 3, d, h) : d \in {4, 5, 6}, h \in DayHours}
    \cup {At(2024, 2, 29, 12), At(2025, 12, 31, 23), At(2026, 1, 1, 0)}

\* the day counts a caller may have left in a record
SavedDays == {NoDays, KnownDays(999)}

InitDays ==
    /\ text = << >> /\ defect = "ok" /\ scanType = None /\ hashSeed = 0
    /\ outA = NotRun /\ outB = NotRun /\ prevB = NotRun
    /\ IdleNorm /\ IdleName
    /\ IdleRx /\ IdleConf /\ IdleDb /\ IdleFn /\ IdleLate
    /\ clock \in Instants
    /\ expIn \in ExpiryInputs
    /\ daysB = NotRun /\ daysDb = NotRun

\* MedicineExtractor._calculate_days_until_expiry(expiry_date)
DaysUntilExpiryB ==
    /\ daysB = NotRun
    /\ daysB' = Returned(CalculateDaysUntilExpiryB(expIn, clock))
    /\ UNCHANGED <<labelVars, normVars, nameOut, expIn, daysDb, exceptDays>>

\* DatabaseHandler._add_calculated_fields(medicine) on a record of the file
DaysUntilExpiryDb ==
    /\ daysDb = NotRun
    /\ \E days \in SavedDays :
          daysDb' = Returned(AddCalculatedFields(
                                MedicineData(<<"a">>, expIn, days, NoTime), clock))
    /\ UNCHANGED <<labelVars, normVars, nameOut, expIn, daysB, exceptDays>>

NextDays == DaysUntilExpiryB \/ DaysUntilExpiryDb

SpecDays == InitDays /\ [][NextDays]_vars

\* ------------------------------------------------------------------------
\* The medicines file under saves, reads and a clock that moves on
\* ------------------------------------------------------------------------

MaxStored == 1

\* the instants the clock passes through
Timeline ==
    << At(2025, 3, 4, 10), At(2025, 3, 5, 9), At(2025, 4, 10, 12) >>

SavedExpiryDates == { <<"2","0","2","5","-","0","3","-","0","5">>, <<"s","o","o","n">>, None }

\* what load_medicines returned, and the instant of the read
ReadAt(medicines, instant) == [st |-> "returned", value |-> medicines, at |-> instant]

InitDb ==
    /\ text = << >> /\ defect = "ok" /\ scanType = None /\ hashSeed = 0
    /\ outA = NotRun /\ outB = NotRun /\ prevB = NotRun
    /\ IdleNorm /\ IdleName
    /\ IdleRx /\ IdleConf /\ IdleDays /\ IdleFn /\ IdleLate
    /\ clock = Timeline[1]
    /\ stored = << >>
    /\ loaded = NotRun

\* save_medicine of a record that carries no id
SaveNew ==
    /\ Len(stored) < MaxStored
    /\ \E expiry_date \in SavedExpiryDates, days \in SavedDays :
          stored' = SaveMedicine(stored, MedicineData(None, expiry_date, days, NoTime),
                                 Uuid(Len(stored) + 1), clock)
    /\ UNCHANGED <<labelVars, normVars, nameOut, loaded, exceptDb>>

\* save_medicine of a record read earlier, its expiry date edited or not
SaveLoaded ==
    /\ loaded # NotRun
    /\ \E k \in DOMAIN loaded.value, expiry_date \in SavedExpiryDates :
          stored' = SaveMedicine(stored,
                                 [loaded.value[k] EXCEPT !.expiry_date = expiry_date],
                                 Uuid(Len(stored) + 1), clock)
    /\ UNCHANGED <<labelVars, normVars, nameOut, loaded, exceptDb>>

\* load_medicines
Load ==
    /\ loaded' = ReadAt(LoadMedicines(stored, clock), clock)
    /\ UNCHANGED <<labelVars, normVars, nameOut, stored, exceptDb>>

\* time passes
AdvanceClock ==
    /\ \E k \in 1..(Len(Timeline) - 1) :
          /\ clock = Timeline[k]
          /\ clock' = Timeline[k + 1]
    /\ UNCHANGED <<dateIn, normA, normB, text, defect, scanType, hashSeed,
                   outA, outB, prevB, nameOut, restVars>>

NextDb == SaveNew \/ SaveLoaded \/ Load \/ AdvanceClock

SpecDb == InitDb /\ [][NextDb]_vars

\* ------------------------------------------------------------------------
\* The date extraction on a text that carries two dates
\* ------------------------------------------------------------------------

\* the words that stand before a date on the modelled labels
DateLabels == { <<"E","x","p">>, <<"M","F","D">>, <<"L","o","t">> }
WrittenDates == { <<"0","3","/","2","0","2","5">>, <<"3","/","2","0","2","5">>, <<"1","3","/","2","0","2","5">> }
\* what stands between the first date and the label of the second: one space,
\* or words that fill more than the width of a context
Gaps == { <<" ">>, <<" ","o","n","e"," ","s","t","r","i","p"," ","o","f"," ","t","e","n"," ","p","i","l","l","s"," ">> }

DateTexts ==
    { l1 \o <<" ">> \o d1 \o gap \o l2 \o <<" ">> \o d2 :
        l1 \in DateLabels, d1 \in WrittenDates, gap \in Gaps,
        l2 \in DateLabels, d2 \in WrittenDates }

InitDates ==
    /\ text \in DateTexts
    /\ hashSeed \in HashSeeds
    /\ defect = "ok" /\ scanType = None
    /\ clock = [y |-> 2025, m |-> 1, d |-> 1, midnight |-> TRUE]
    /\ outA = NotRun /\ outB = NotRun /\ prevB = NotRun
    /\ IdleNorm /\ IdleName /\ IdleRx /\ IdleConf /\ IdleDays /\ IdleDb /\ IdleFn /\ IdleLate

\* OCRProcessor.extract_dates(text)
ExtractDatesOfText ==
    /\ datesOut = NotRun
    /\ datesOut' = Returned(ExtractDates(text, hashSeed))
    /\ UNCHANGED <<labelVars, normVars, nameOut, doseOut, cleanOut, exceptFn>>

NextDates == ExtractDatesOfText

SpecDates == InitDates /\ [][NextDates]_vars

\* ------------------------------------------------------------------------
\* The dosage selection on a text that carries up to two dosages
\* ------------------------------------------------------------------------

WrittenDosages == { <<"5"," ","m","g">>, <<"5"," ","m","l">>, <<"1","0"," ","g">>, <<"2"," ","u","n","i","t","s">>, <<"7"," ","m","c","g">>, <<"o","n","e">> }

DosageTexts == { a \o <<" ","a","n","d"," ">> \o b : a \in WrittenDosages, b \in WrittenDosages }

InitDose ==
    /\ text \in DosageTexts
    /\ hashSeed \in HashSeeds
    /\ defect = "ok" /\ scanType = None
    /\ clock = [y |-> 2025, m |-> 1, d |-> 1, midnight |-> TRUE]
    /\ outA = NotRun /\ outB = NotRun /\ prevB = NotRun
    /\ IdleNorm /\ IdleName /\ IdleRx /\ IdleConf /\ IdleDays /\ IdleDb /\ IdleFn /\ IdleLate

\* the two values of a dosage selection
Selection(dosages, primary) == [dosages |-> dosages, primary |-> primary]

\* OCRProcessor.extract_dosages(text), then
\* MedicineExtractor._extract_primary_dosage of the list it returned
SelectDosage ==
    /\ doseOut = NotRun
    /\ doseOut' = Returned(Selection(ExtractDosages(text, hashSeed),
                                     ExtractPrimaryDosage(ExtractDosages(text, hashSeed))))
    /\ UNCHANGED <<labelVars, normVars, nameOut, datesOut, cleanOut, exceptFn>>

NextDose == SelectDosage

SpecDose == InitDose /\ [][NextDose]_vars

\* ------------------------------------------------------------------------
\* The text cleaning on a text of two tokens
\* ------------------------------------------------------------------------

\* the character U+00A7, the section sign
SectionSign == "U+00A7"

RawTokens ==
    { <<"D","o","l","0">>, <<"1","/","2","/","2","0","2","5">>, <<"1","0">>, <<"a","|","b","1">>, <<"1","-","2">>, <<"m","g">>,
      <<SectionSign, "5">>, <<"x", SectionSign>>, MisencodedKey \o <<"1">> }

Whitespaces == { <<" ">>, <<" "," ">>, <<"\n">> }

RawTexts ==
    { a \o ws \o b : a \in RawTokens, ws \in Whitespaces, b \in RawTokens }
    \cup { ws \o a : ws \in Whitespaces, a \in RawTokens }

InitClean ==
    /\ text \in RawTexts
    /\ hashSeed = 0
    /\ defect = "ok" /\ scanType = None
    /\ clock = [y |-> 2025, m |-> 1, d |-> 1, midnight |-> TRUE]
    /\ outA = NotRun /\ outB = NotRun /\ prevB = NotRun
    /\ IdleNorm /\ IdleName /\ IdleRx /\ IdleConf /\ IdleDays /\ IdleDb /\ IdleFn /\ IdleLate

\* OCRProcessor.clean_text(text)
CleanTextOfText ==
    /\ cleanOut = NotRun
    /\ cleanOut' = Returned(CleanText(text))
    /\ UNCHANGED <<labelVars, normVars, nameOut, datesOut, doseOut, exceptFn>>

NextClean == CleanTextOfText

SpecClean == InitClean /\ [][NextClean]_vars

\* ------------------------------------------------------------------------
\* The reminder system of the backend package, called by one thread
\* ------------------------------------------------------------------------

\* the variables of the last part of the module, all of them but one group
exceptRemA == <<lexVars, voiceVars, remBVars, alertVars, scanVars, storeVars>>
exceptLex == <<remAVars, voiceVars, remBVars, alertVars, scanVars, storeVars>>
exceptVoice == <<remAVars, lexVars, remBVars, alertVars, scanVars, storeVars>>
exceptRemB == <<remAVars, lexVars, voiceVars, alertVars, scanVars, storeVars>>
exceptAlert == <<remAVars, lexVars, voiceVars, remBVars, scanVars, storeVars>>
exceptScan == <<remAVars, lexVars, voiceVars, remBVars, alertVars, storeVars>>
exceptStore == <<remAVars, lexVars, voiceVars, remBVars, alertVars, scanVars>>
IdleExceptRemA == IdleLex /\ IdleVoice /\ IdleRemB /\ IdleAlert /\ IdleScan /\ IdleStore
IdleExceptLex == IdleRemA /\ IdleVoice /\ IdleRemB /\ IdleAlert /\ IdleScan /\ IdleStore
IdleExceptVoice == IdleRemA /\ IdleLex /\ IdleRemB /\ IdleAlert /\ IdleScan /\ IdleStore
IdleExceptRemB == IdleRemA /\ IdleLex /\ IdleVoice /\ IdleAlert /\ IdleScan /\ IdleStore
IdleExceptAlert == IdleRemA /\ IdleLex /\ IdleVoice /\ IdleRemB /\ IdleScan /\ IdleStore
IdleExceptScan == IdleRemA /\ IdleLex /\ IdleVoice /\ IdleRemB /\ IdleAlert /\ IdleStore
IdleExceptStore == IdleRemA /\ IdleLex /\ IdleVoice /\ IdleRemB /\ IdleAlert /\ IdleScan

\* the variables of the first parts of the module but the clock, at rest
earlyVars ==
    <<dateIn, normA, normB, text, defect, scanType, hashSeed, outA, outB, prevB,
      nameOut, rxVars, confVars, daysVars, dbVars, fnVars>>
IdleEarly ==
    /\ text = << >> /\ defect = "ok" /\ scanType = None /\ hashSeed = 0
    /\ outA = NotRun /\ outB = NotRun /\ prevB = NotRun
    /\ IdleNorm /\ IdleName /\ IdleRx /\ IdleConf /\ IdleDays /\ IdleDb /\ IdleFn

Files(reminders, history) == [exists |-> TRUE, reminders |-> reminders, history |-> history]

\* a reminder as an earlier run left it in the file
StoredReminder(id, times) ==
    [id |-> id, medicine_id |-> id \o <<"m">>, medicine_name |-> <<"D","o","l","o">>,
     dosage |-> <<"5"," ","m","g">>, frequency |-> <<"D","a","i","l","y">>, times |-> times,
     start_date |-> 90, duration_days |-> DefaultDurationDays, instructions |-> << >>,
     active |-> TRUE, created_at |-> Moment(90, 600), last_taken |-> None,
     missed_count |-> 0, taken_count |-> 0, next_reminder |-> Moment(100, 8 * 60)]

StoredLists ==
    { << >>,
      << StoredReminder(<<"a">>, << <<"0","8",":","0","0">> >>) >>,
      << StoredReminder(<<"a">>, << <<"0","8",":","0","0">> >>),
         StoredReminder(<<"b">>, << <<"2","0",":","0","0">>, <<"8",":","0","0">> >>) >> }

HistoryEntry(id, timestamp) ==
    [id |-> id, reminder_id |-> <<"a">>, medicine_name |-> <<"D","o","l","o">>, action |-> "taken",
     timestamp |-> timestamp]

StoredHistories ==
    { << >>, << HistoryEntry(<<"h","1">>, Moment(5, 0)), HistoryEntry(<<"h","2">>, Moment(99, 600)) >> }

ReminderMoments == { Moment(100, 7 * 60), Moment(100, 9 * 60), Moment(100, 21 * 60) }

TimeLists == { << <<"0","8",":","0","0">> >>, << <<"2","0",":","0","0">>, <<"0","8",":","0","0">> >>, << <<"2","5",":","0","0">> >>, << >> }

ReminderInputs ==
    { [medicine_name |-> <<"D","o","l","o">>, dosage |-> <<"5"," ","m","g">>, frequency |-> <<"D","a","i","l","y">>,
       times |-> times] : times \in TimeLists }
    \cup { [medicine_name |-> <<"D","o","l","o">>, dosage |-> <<"5"," ","m","g">>, times |-> << <<"0","8",":","0","0">> >>],
           [medicine_name |-> <<"D","o","l","o">>, dosage |-> <<"5"," ","m","g">>, frequency |-> <<"D","a","i","l","y">>,
            times |-> << <<"0","8",":","0","0">> >>, active |-> FALSE, medicine_id |-> <<"m","7">>] }

ReminderIds == { <<"a">>, <<"b">>, <<"z","z">> }

UpdateInputs ==
    { << <<"active", FALSE>> >>,
      << <<"times", << <<"2","2",":","0","0">> >> >> >>,
      << <<"dosage", <<"1","0"," ","m","g">> >>, <<"colour", <<"r","e","d">> >> >> }

InitRemA ==
    /\ IdleEarly
    /\ clock \in ReminderMoments
    /\ remA \in StoredLists
    /\ histA \in StoredHistories
    /\ fileA = Files(remA, histA)
    /\ lockA = "free"
    /\ callA = NoCall
    /\ IdleExceptRemA

\* the thread is in no call
Callable == callA.at \in {"idle", "returned"}

\* the positions of a call: the lock is taken and _save_data is called next;
\* the call has returned
InSaveData(op, holds, applies) ==
    [op |-> op, at |-> "saving", holds |-> holds, applies |-> applies]
HasReturned(op, ret, applies) ==
    [op |-> op, at |-> "returned", ret |-> ret, applies |-> applies]

\* create_reminder up to its call of _save_data
CreateReminderA ==
    /\ Callable /\ lockA = "free"
    /\ \E reminder_data \in ReminderInputs :
          IF RequiredFields \subseteq DOMAIN reminder_data
          THEN /\ remA' = Append(remA, NewReminder(reminder_data, Uuid(Len(remA) + 1), clock))
               /\ lockA' = "caller"
               /\ callA' = InSaveData("create_reminder", TRUE, TRUE)
          ELSE /\ callA' = HasReturned("create_reminder", "False", FALSE)
               /\ UNCHANGED <<remA, lockA>>
    /\ UNCHANGED <<earlyVars, exceptRemA, clock, histA, fileA>>

\* mark_taken up to its call of _save_data
MarkTakenA ==
    /\ Callable /\ lockA = "free"
    /\ \E reminder_id \in ReminderIds :
          IF HasId(remA, reminder_id)
          THEN /\ remA' = ChangedFirst(remA, reminder_id, LAMBDA r : Taken(r, clock, clock))
               /\ histA' = AddToHistory(histA,
                                        ChangedFirst(remA, reminder_id,
                                                     LAMBDA r : Taken(r, clock, clock)),
                                        reminder_id, "taken", clock, Uuid(Len(histA) + 1))
               /\ lockA' = "caller"
               /\ callA' = InSaveData("mark_taken", TRUE, TRUE)
          ELSE /\ callA' = HasReturned("mark_taken", "False", FALSE)
               /\ UNCHANGED <<remA, histA, lockA>>
    /\ UNCHANGED <<earlyVars, exceptRemA, clock, fileA>>

\* mark_missed up to its call of _save_data
MarkMissedA ==
    /\ Callable /\ lockA = "free"
    /\ \E reminder_id \in ReminderIds :
          IF HasId(remA, reminder_id)
          THEN /\ remA' = ChangedFirst(remA, reminder_id, LAMBDA r : Missed(r, clock))
               /\ histA' = AddToHistory(histA,
                                        ChangedFirst(remA, reminder_id,
                                                     LAMBDA r : Missed(r, clock)),
                                        reminder_id, "missed", clock, Uuid(Len(histA) + 1))
               /\ lockA' = "caller"
               /\ callA' = InSaveData("mark_missed", TRUE, TRUE)
          ELSE /\ callA' = HasReturned("mark_missed", "False", FALSE)
               /\ UNCHANGED <<remA, histA, lockA>>
    /\ UNCHANGED <<earlyVars, exceptRemA, clock, fileA>>

\* disable_reminder up to its call of _save_data
DisableReminderA ==
    /\ Callable /\ lockA = "free"
    /\ \E reminder_id \in ReminderIds :
          IF HasId(remA, reminder_id)
          THEN /\ remA' = ChangedFirst(remA, reminder_id, Disabled)
               /\ lockA' = "caller"
               /\ callA' = InSaveData("disable_reminder", TRUE, TRUE)
          ELSE /\ callA' = HasReturned("disable_reminder", "False", FALSE)
               /\ UNCHANGED <<remA, lockA>>
    /\ UNCHANGED <<earlyVars, exceptRemA, clock, histA, fileA>>

\* delete_reminder up to its call of _save_data
DeleteReminderA ==
    /\ Callable /\ lockA = "free"
    /\ \E reminder_id \in ReminderIds :
          /\ remA' = WithoutId(remA, reminder_id)
          /\ IF HasId(remA, reminder_id)
             THEN /\ lockA' = "caller"
                  /\ callA' = InSaveData("delete_reminder", TRUE, TRUE)
             ELSE /\ callA' = HasReturned("delete_reminder", "False", FALSE)
                  /\ UNCHANGED lockA
    /\ UNCHANGED <<earlyVars, exceptRemA, clock, histA, fileA>>

\* update_reminder up to its call of _save_data
UpdateReminderA ==
    /\ Callable /\ lockA = "free"
    /\ \E reminder_id \in ReminderIds, updates \in UpdateInputs :
          IF HasId(remA, reminder_id)
          THEN /\ remA' = ChangedFirst(remA, reminder_id,
                                       LAMBDA r : Updated(r, updates, clock))
               /\ lockA' = "caller"
               /\ callA' = InSaveData("update_reminder", TRUE, TRUE)
          ELSE /\ callA' = HasReturned("update_reminder", "False", FALSE)
               /\ UNCHANGED <<remA, lockA>>
    /\ UNCHANGED <<earlyVars, exceptRemA, clock, histA, fileA>>

\* cleanup_old_history up to its call of _save_data, which it makes without
\* the lock
CleanupOldHistoryA ==
    /\ Callable
    /\ histA' = NotOlderThan(histA, PlusDays(clock, 0 - HistoryDays))
    /\ IF Len(histA') < Len(histA)
       THEN callA' = InSaveData("cleanup_old_history", FALSE, TRUE)
       ELSE callA' = HasReturned("cleanup_old_history", "None", TRUE)
    /\ UNCHANGED <<earlyVars, exceptRemA, clock, remA, fileA, lockA>>

\* _save_data: with self._lock, write both files.  threading.Lock is not
\* reentrant: a thread that holds it waits in acquire() for ever.
SaveDataA ==
    /\ callA.at = "saving"
    /\ IF lockA = "free"
       THEN /\ fileA' = Files(remA, histA)
            /\ callA' = [callA EXCEPT !.at = "saved"]
       ELSE /\ callA' = [callA EXCEPT !.at = "blocked"]
            /\ UNCHANGED fileA
    /\ UNCHANGED <<earlyVars, exceptRemA, clock, remA, histA, lockA>>

\* the rest of the call after _save_data returned: the lock is released where
\* it was held, and the call returns
ReturnA ==
    /\ callA.at = "saved"
    /\ lockA' = IF callA.holds THEN "free" ELSE lockA
    /\ callA' = HasReturned(callA.op, IF callA.holds THEN "True" ELSE "None", callA.applies)
    /\ UNCHANGED <<earlyVars, exceptRemA, clock, remA, histA, fileA>>

NextRemA ==
    \/ CreateReminderA \/ MarkTakenA \/ MarkMissedA \/ DisableReminderA
    \/ DeleteReminderA \/ UpdateReminderA \/ CleanupOldHistoryA
    \/ SaveDataA \/ ReturnA

SpecRemA == InitRemA /\ [][NextRemA]_vars

\* ------------------------------------------------------------------------
\* The lexicons of the extractors under extraction calls of two threads
\* ------------------------------------------------------------------------

\* the lexicons with the operation's name taken in as a medicine
WithLearnedName(lexicon_set, op) ==
    [lexicon_set EXCEPT !.medicine_database = @ \cup {<<op>>}]

\* what a call of extract_from_label, extract_from_prescription or
\* extract_medicines and of the methods they call does to the lexicons: the
\* attributes are only read (name_lower in self.medicine_database,
\* for form in self.medicine_forms, for unit in self.dosage_units)
LexiconsAfterCall(lexicon_set, op) == lexicon_set

ScannedTexts ==
    { <<"P","a","r","a","c","e","t","a","m","o","l"," ","5","0","0"," ","m","g"," ","E","x","p"," ","0","3","/","2","0","2","5">>, <<"T","a","b","."," ","A","b","c"," ","1","0"," ","m","g">>, <<"D","o","l","o"," ","s","y","r","u","p">>,
      <<"A","S","P","I","R","I","N"," ","7","5"," ","m","g">>, <<"5","0","0"," ","m","g">> }

ExtractionCalls == {"extract_from_label", "extract_from_prescription", "extract_medicines"}

InitLex ==
    /\ text \in ScannedTexts
    /\ defect = "ok"
    /\ scanType = <<"M","e","d","i","c","i","n","e"," ","L","a","b","e","l">>
    /\ hashSeed \in HashSeeds
    /\ clock = [y |-> 2025, m |-> 3, d |-> 4, midnight |-> FALSE]
    /\ outA = NotRun /\ outB = NotRun /\ prevB = NotRun
    /\ IdleNorm /\ IdleName /\ IdleRx /\ IdleConf /\ IdleDays /\ IdleDb /\ IdleFn
    /\ IdleExceptLex
    /\ lexicons = ConstructedLexicons
    /\ running = [t \in Threads |-> "none"]

\* a thread enters one of the extraction calls
EnterExtraction ==
    /\ \E t \in Threads, op \in ExtractionCalls :
          /\ running[t] = "none"
          /\ running' = [running EXCEPT ![t] = op]
    /\ UNCHANGED <<labelVars, normVars, nameOut, rxVars, confVars, daysVars, dbVars,
                   fnVars, exceptLex, lexicons>>

\* the extract_from_label call of a thread runs to its end
LeaveExtractFromLabel ==
    /\ \E t \in Threads :
          /\ running[t] = "extract_from_label"
          /\ running' = [running EXCEPT ![t] = "none"]
    /\ outB' = ExtractFromLabel(OcrResultB(text, hashSeed), clock)
    /\ prevB' = outB
    /\ lexicons' = LexiconsAfterCall(lexicons, "extract_from_label")
    /\ UNCHANGED <<text, defect, scanType, hashSeed, clock, outA, normVars, nameOut,
                   rxVars, confVars, daysVars, dbVars, fnVars, exceptLex>>

\* the extract_from_prescription call of a thread runs to its end
LeaveExtractFromPrescription ==
    /\ \E t \in Threads :
          /\ running[t] = "extract_from_prescription"
          /\ running' = [running EXCEPT ![t] = "none"]
    /\ rxOutB' = ExtractFromPrescription(OcrResultB(text, hashSeed), hashSeed, clock)
    /\ lexicons' = LexiconsAfterCall(lexicons, "extract_from_prescription")
    /\ UNCHANGED <<labelVars, normVars, nameOut, rxOutA, confVars, daysVars, dbVars,
                   fnVars, exceptLex>>

\* the extract_medicines call of a thread runs to its end
LeaveExtractMedicines ==
    /\ \E t \in Threads :
          /\ running[t] = "extract_medicines"
          /\ running' = [running EXCEPT ![t] = "none"]
    /\ outA' = ExtractMedicines(OcrResultA(text), scanType, clock)
    /\ lexicons' = LexiconsAfterCall(lexicons, "extract_medicines")
    /\ UNCHANGED <<text, defect, scanType, hashSeed, clock, outB, prevB, normVars,
                   nameOut, rxVars, confVars, daysVars, dbVars, fnVars, exceptLex>>

NextLex ==
    \/ EnterExtraction \/ LeaveExtractFromLabel \/ LeaveExtractFromPrescription
    \/ LeaveExtractMedicines

SpecLex == InitLex /\ [][NextLex]_vars

\* ------------------------------------------------------------------------
\* The voice assistant: one calling thread, and the threads speak starts
\* ------------------------------------------------------------------------

\* the threads speak may start on _speak_sync in one behaviour
MaxSpeeches == 3

SpokenTexts == { << >>, <<"T","a","k","e"," ","D","o","l","o">> }
Priorities == {"normal", "high", "low"}

\* the positions of a speak call: stop_speaking is called next, inside
\* "with self._speak_lock"; the lock is released and the thread is started
\* next; the call waits for a lock; the call has returned
SpeakCall(txt, priority, wasSpeaking, at, ret) ==
    [op |-> "speak", text |-> txt, priority |-> priority, wasSpeaking |-> wasSpeaking,
     at |-> at, ret |-> ret]
StopCall(at) == [op |-> "stop_speaking", at |-> at]

InitVoice ==
    /\ IdleEarly
    /\ clock = Moment(100, 0)
    /\ IdleExceptVoice
    /\ isSpeaking = FALSE
    /\ speakLock = "free"
    /\ engine \in BOOLEAN
    /\ callV = NoCall
    /\ speech = << >>

CallableV == callV.at \in {"idle", "returned"}

\* speak(text, priority), async_mode left at its default, up to the end of
\* "with self._speak_lock" or to the call of stop_speaking inside it
Speak ==
    /\ CallableV
    /\ speakLock = "free"
    /\ Len(speech) < MaxSpeeches
    /\ \E txt \in SpokenTexts, priority \in Priorities :
          IF txt = << >>
          THEN /\ callV' = SpeakCall(txt, priority, isSpeaking, "returned", "False")
               /\ UNCHANGED <<isSpeaking, speakLock>>
          ELSE IF priority = "high" /\ isSpeaking
          THEN /\ callV' = SpeakCall(txt, priority, TRUE, "stopping", "none")
               /\ speakLock' = "caller"
               /\ UNCHANGED isSpeaking
          ELSE IF isSpeaking
          THEN /\ callV' = SpeakCall(txt, priority, TRUE, "returned", "False")
               /\ UNCHANGED <<isSpeaking, speakLock>>
          ELSE /\ isSpeaking' = TRUE
               /\ callV' = SpeakCall(txt, priority, FALSE, "starting", "none")
               /\ UNCHANGED speakLock
    /\ UNCHANGED <<earlyVars, clock, exceptVoice, engine, speech>>

\* the stop_speaking() of a high-priority speak, called with _speak_lock
\* held: engine.stop() raises and the method returns from its except clause,
\* then speak sleeps, sets is_speaking and leaves the lock; or the method
\* goes on to "with self._speak_lock", a lock that is not reentrant
StopSpeakingInSpeak ==
    /\ callV.op = "speak" /\ callV.at = "stopping"
    /\ \E raised \in BOOLEAN :
          IF engine /\ raised
          THEN /\ isSpeaking' = TRUE
               /\ speakLock' = "free"
               /\ callV' = [callV EXCEPT !.at = "starting"]
          ELSE /\ callV' = [callV EXCEPT !.at = "blocked"]
               /\ UNCHANGED <<isSpeaking, speakLock>>
    /\ UNCHANGED <<earlyVars, clock, exceptVoice, engine, speech>>

\* thread = threading.Thread(target=self._speak_sync, ...); thread.start();
\* return True
StartSpeakThread ==
    /\ callV.op = "speak" /\ callV.at = "starting"
    /\ speech' = Append(speech, "started")
    /\ callV' = [callV EXCEPT !.at = "returned", !.ret = "True"]
    /\ UNCHANGED <<earlyVars, clock, exceptVoice, isSpeaking, speakLock, engine>>

\* stop_speaking() called by the calling thread itself
StopSpeaking ==
    /\ CallableV
    /\ speakLock = "free"
    /\ \E raised \in BOOLEAN :
          isSpeaking' = IF engine /\ raised THEN isSpeaking ELSE FALSE
    /\ callV' = StopCall("returned")
    /\ UNCHANGED <<earlyVars, clock, exceptVoice, speakLock, engine, speech>>

\* _speak_sync in its thread: engine.say(text) and the start of runAndWait(),
\* or "No voice engine available"
SpeakSyncSay ==
    /\ \E k \in 1..Len(speech) :
          /\ speech[k] = "started"
          /\ speech' = [speech EXCEPT ![k] = IF engine THEN "engine" ELSE "finally"]
    /\ UNCHANGED <<earlyVars, clock, exceptVoice, isSpeaking, speakLock, engine, callV>>

\* runAndWait() returns, or raises
SpeakSyncRunAndWait ==
    /\ \E k \in 1..Len(speech) :
          /\ speech[k] = "engine"
          /\ speech' = [speech EXCEPT ![k] = "finally"]
    /\ UNCHANGED <<earlyVars, clock, exceptVoice, isSpeaking, speakLock, engine, callV>>

\* finally: with self._speak_lock: self.is_speaking = False
SpeakSyncFinally ==
    /\ speakLock = "free"
    /\ \E k \in 1..Len(speech) :
          /\ speech[k] = "finally"
          /\ speech' = [speech EXCEPT ![k] = "done"]
    /\ isSpeaking' = FALSE
    /\ UNCHANGED <<earlyVars, clock, exceptVoice, speakLock, engine, callV>>

NextVoice ==
    \/ Speak
    \/ StopSpeakingInSpeak
    \/ StartSpeakThread
    \/ StopSpeaking
    \/ SpeakSyncSay
    \/ SpeakSyncRunAndWait
    \/ SpeakSyncFinally

SpecVoice == InitVoice /\ [][NextVoice]_vars

\* ------------------------------------------------------------------------
\* The reminder system of src/backend-reminder-system.py under a clock that
\* does not go back
\* ------------------------------------------------------------------------

MaxRemindersB == 1

ClockTimes ==
    { Moment(100, 60), Moment(100, 8 * 60 + 50), Moment(100, 8 * 60 + 55),
      Moment(100, 9 * 60 + 10), Moment(100, 15 * 60), Moment(100, 21 * 60 + 30),
      Moment(101, 8 * 60 + 50) }

ReminderTypes ==
    { <<"D","a","i","l","y">>, <<"T","w","i","c","e"," ","D","a","i","l","y">>, <<"T","h","r","e","e"," ","T","i","m","e","s"," ","D","a","i","l","y">>, <<"W","e","e","k","l","y">>, <<"C","u","s","t","o","m">> }
\* NoMinute for a call that leaves reminder_time out
ReminderTimes == { NoMinute, 9 * 60, 14 * 60 }
MedicineInfos == { [name |-> <<"D","o","l","o">>, expiry_date |-> <<"2","0","2","5","-","0","3","-","1","0">>], [name |-> <<"D","o","l","o">>] }
ReminderIdsB == { Uuid(1), Uuid(9) }

CalculatedNext(reminder_type, reminder_time, now) ==
    [st |-> "returned", reminder_type |-> reminder_type, reminder_time |-> reminder_time,
     now |-> now, value |-> CalculateNextReminder(reminder_type, reminder_time, now)]

InitRemB ==
    /\ IdleEarly
    /\ clock \in ClockTimes
    /\ IdleExceptRemB
    /\ remB = << >>
    /\ fileB = NoFile
    /\ nextB = NotRun
    /\ dueB = NotRun
    /\ returnedB = {}

CreateReminderB ==
    /\ Len(remB) < MaxRemindersB
    /\ \E medicine_info \in MedicineInfos, reminder_type \in ReminderTypes,
          reminder_time \in ReminderTimes :
          /\ remB' = Append(remB, CreatedReminder(medicine_info, reminder_type, reminder_time,
                                                  Uuid(Len(remB) + 1), clock))
          /\ nextB' = CalculatedNext(reminder_type,
                          IF reminder_time = NoMinute THEN DefaultReminderTime ELSE reminder_time,
                          clock)
    /\ fileB' = Files(remB', << >>)
    /\ UNCHANGED <<earlyVars, clock, exceptRemB, dueB, returnedB>>

\* the positions of the reminders that are due now
DueNow == {k \in 1..Len(remB) : IsDue(remB[k], clock)}
LastOf(positions) == CHOOSE k \in positions : \A j \in positions : j <= k
\* the first reminder of the list that has the id
WithId(reminders, id) ==
    reminders[CHOOSE k \in 1..Len(reminders) :
                 reminders[k].id = id /\ \A j \in 1..(k - 1) : reminders[j].id # id]
Occurrence(reminder) == [id |-> reminder.id, occurrence |-> reminder.next_reminder]
Occurrences(out) == IF out = NotRun THEN {} ELSE {out.value[k] : k \in 1..Len(out.value)}

CheckDueRemindersB ==
    /\ remB' = [k \in 1..Len(remB) |-> AfterCheck(remB[k], clock)]
    /\ dueB' = Returned([k \in 1..Len(SelectSeq(remB, LAMBDA r : IsDue(r, clock))) |->
                            Occurrence(SelectSeq(remB, LAMBDA r : IsDue(r, clock))[k])])
    /\ returnedB' = returnedB \cup Occurrences(dueB)
    /\ nextB' = IF DueNow = {} THEN nextB
                ELSE CalculatedNext(remB[LastOf(DueNow)].type,
                                    ParseTime(remB[LastOf(DueNow)].time), clock)
    /\ fileB' = IF DueNow = {} THEN fileB ELSE Files(remB', << >>)
    /\ UNCHANGED <<earlyVars, clock, exceptRemB>>

PauseReminderB ==
    /\ \E id \in ReminderIdsB :
          /\ HasId(remB, id)
          /\ remB' = ChangedFirst(remB, id, LAMBDA r : [r EXCEPT !.active = FALSE])
    /\ fileB' = Files(remB', << >>)
    /\ UNCHANGED <<earlyVars, clock, exceptRemB, nextB, dueB, returnedB>>

ResumeReminderB ==
    /\ \E id \in ReminderIdsB :
          /\ HasId(remB, id)
          /\ remB' = ChangedFirst(remB, id,
                        LAMBDA r : [Rescheduled(r, clock) EXCEPT !.active = TRUE])
          /\ nextB' = CalculatedNext(WithId(remB, id).type, ParseTime(WithId(remB, id).time), clock)
    /\ fileB' = Files(remB', << >>)
    /\ UNCHANGED <<earlyVars, clock, exceptRemB, dueB, returnedB>>

\* time passes
AdvanceClockB ==
    /\ \E later \in ClockTimes :
          /\ IsAfter(later, clock)
          /\ clock' = later
    /\ UNCHANGED <<earlyVars, exceptRemB, remBVars>>

NextRemB ==
    \/ CreateReminderB
    \/ CheckDueRemindersB
    \/ PauseReminderB
    \/ ResumeReminderB
    \/ AdvanceClockB

SpecRemB == InitRemB /\ [][NextRemB]_vars

\* ------------------------------------------------------------------------
\* The day counts of the database, the extractor and the expiry alerts
\* ------------------------------------------------------------------------

\* the fields of a stored reminder that get_expiry_alerts reads
AlertedReminder(id, expiry_date) ==
    [id |-> id, medicine_name |-> <<"D","o","l","o">>, expiry_date |-> expiry_date]

\* days_ahead as the callers pass it: the default, a month, and beyond a year
DaysAhead == {7, 30, 400}

\* get_expiry_alerts(days_ahead) with the medicine of the other two calls
\* and one more in the reminders
GetExpiryAlertsB ==
    /\ alertsOut = NotRun
    /\ \E days_ahead \in DaysAhead :
          alertsOut' = Returned(GetExpiryAlerts(
              << AlertedReminder(<<"b">>, <<"2","0","2","5","-","0","3","-","0","5">>), AlertedReminder(<<"a">>, expIn) >>,
              days_ahead, clock))
    /\ UNCHANGED <<labelVars, normVars, nameOut, rxVars, confVars, daysVars, dbVars, fnVars,
                   exceptAlert>>

NextAlerts == DaysUntilExpiryB \/ DaysUntilExpiryDb \/ GetExpiryAlertsB

SpecAlerts == InitDays /\ [][NextAlerts]_vars

\* ------------------------------------------------------------------------
\* The scan history file under saves, cleanups and reads
\* ------------------------------------------------------------------------

MaxScanSaves == 3

ScanClock == { Moment(400, 600), Moment(400, 700), Moment(401, 0) }

\* an entry an earlier run saved
SavedScan(n, stamp) == ScanEntry([success |-> TRUE], Uuid(n), stamp)
\* the file as earlier runs left it: empty, or full with one entry of long ago
ScanFiles ==
    { << >>,
      << SavedScan(1, Moment(1, 0)), SavedScan(2, Moment(400, 1)), SavedScan(3, Moment(400, 2)) >> }

ScanInputs == { [scan_type |-> <<"l","a","b","e","l">>, success |-> TRUE, medicines_found |-> 1], << >> }
DaysOld == {365, 30}
HistoryDaysAsked == {0, 30}

ScanCall(op, ret) == [st |-> "returned", op |-> op, value |-> ret]

\* the medicines file is empty, so that cleanup_old_data finds no medicine
\* to remove
InitScan ==
    /\ IdleEarly
    /\ clock = Moment(400, 600)
    /\ IdleExceptScan
    /\ scanFile \in ScanFiles
    /\ scanDropped = << >>
    /\ scanOut = NotRun
    /\ scanSaves = 0

SaveScanHistoryS ==
    /\ scanSaves < MaxScanSaves
    /\ \E scan_data \in ScanInputs :
          /\ scanFile' = SaveScanHistory(scanFile, scan_data, Uuid(10 + scanSaves), clock)
          /\ scanDropped' = CutOff(Append(scanFile, ScanEntry(scan_data, Uuid(10 + scanSaves), clock)))
    /\ scanOut' = ScanCall("save_scan_history", Uuid(10 + scanSaves))
    /\ scanSaves' = scanSaves + 1
    /\ UNCHANGED <<earlyVars, clock, exceptScan>>

CleanupOldDataS ==
    /\ \E days_old \in DaysOld :
          scanFile' = CleanedScanHistory(scanFile, days_old, clock)
    /\ scanOut' = ScanCall("cleanup_old_data", Len(scanFile) - Len(scanFile'))
    /\ UNCHANGED <<earlyVars, clock, exceptScan, scanDropped, scanSaves>>

GetScanHistoryS ==
    /\ \E days \in HistoryDaysAsked :
          scanOut' = ScanCall("get_scan_history", GetScanHistory(scanFile, days, clock))
    /\ UNCHANGED <<earlyVars, clock, exceptScan, scanFile, scanDropped, scanSaves>>

AdvanceClockS ==
    /\ \E later \in ScanClock :
          /\ IsAfter(later, clock)
          /\ clock' = later
    /\ UNCHANGED <<earlyVars, exceptScan, scanVars>>

NextScan ==
    \/ SaveScanHistoryS
    \/ CleanupOldDataS
    \/ GetScanHistoryS
    \/ AdvanceClockS

SpecScan == InitScan /\ [][NextScan]_vars

\* ------------------------------------------------------------------------
\* The medicines file under saves and deletes, from an empty file
\* ------------------------------------------------------------------------

\* the ids uuid.uuid4() gives in one behaviour
MaxUuids == 2

StoreExpiryDates == { <<"2","0","2","5","-","0","3","-","0","5">> }
\* the ids a caller sets in a record, None for a record without the key
CallerIds == { None, <<"x">> }
DeletedIds == { Uuid(1), <<"x">> }

StoreCalled(op, id, before, instant, ret) ==
    [op |-> op, at |-> "returned", id |-> id, before |-> before, instant |-> instant,
     ret |-> ret]

InitStore ==
    /\ text = << >> /\ defect = "ok" /\ scanType = None /\ hashSeed = 0
    /\ outA = NotRun /\ outB = NotRun /\ prevB = NotRun
    /\ IdleNorm /\ IdleName
    /\ IdleRx /\ IdleConf /\ IdleDays /\ IdleFn /\ IdleExceptStore
    /\ clock = Timeline[1]
    /\ stored = << >>
    /\ loaded = NotRun
    /\ held = NotRun
    /\ uuids = 0
    /\ storeCall = NoCall

\* save_medicine of a dictionary the caller has just built
SaveScanned ==
    /\ uuids < MaxUuids
    /\ \E id \in CallerIds, expiry_date \in StoreExpiryDates :
          /\ stored' = SaveMedicine(stored, MedicineData(id, expiry_date, NoDays, NoTime),
                                    Uuid(uuids + 1), clock)
          /\ held' = Stamped(MedicineData(id, expiry_date, NoDays, NoTime), Uuid(uuids + 1), clock)
          /\ uuids' = IF id = None THEN uuids + 1 ELSE uuids
    /\ storeCall' = StoreCalled("save_medicine", held'.id, stored, clock, TRUE)
    /\ UNCHANGED <<labelVars, normVars, nameOut, loaded, rxVars, confVars, daysVars, fnVars,
                   exceptStore>>

\* save_medicine of the dictionary of the last save, the same object
SaveHeld ==
    /\ held # NotRun
    /\ stored' = SaveMedicine(stored, held, Uuid(uuids + 1), clock)
    /\ held' = Stamped(held, Uuid(uuids + 1), clock)
    /\ storeCall' = StoreCalled("save_medicine", held.id, stored, clock, TRUE)
    /\ UNCHANGED <<labelVars, normVars, nameOut, loaded, rxVars, confVars, daysVars, fnVars,
                   exceptStore, uuids>>

DeleteMedicineS ==
    /\ \E medicine_id \in DeletedIds :
          /\ stored' = DeleteMedicine(stored, medicine_id, clock)
          /\ storeCall' = StoreCalled("delete_medicine", medicine_id, stored, clock,
                                      Len(stored') < Len(stored))
    /\ UNCHANGED <<labelVars, normVars, nameOut, loaded, rxVars, confVars, daysVars, fnVars,
                   exceptStore, held, uuids>>

NextStore == SaveScanned \/ SaveHeld \/ DeleteMedicineS \/ AdvanceClock

SpecStore == InitStore /\ [][NextStore]_vars

\* ------------------------------------------------------------------------
\* Properties
\* ------------------------------------------------------------------------

\* the year, month and day written in a string of the form YYYY-MM-DD
YearOf(s)  == ParseInt(SubSeq(s, 1, 4))
MonthOf(s) == ParseInt(SubSeq(s, 6, 7))
DayOf(s)   == ParseInt(SubSeq(s, 9, 10))

\* s has exactly the form YYYY-MM-DD
IsCanonicalDate(s) ==
    /\ Len(s) = 10
    /\ s[5] = "-" /\ s[8] = "-"
    /\ \A k \in {1, 2, 3, 4, 6, 7, 9, 10} : s[k] \in DigitCs

\* the year a two-digit year stands for when the century boundary is 50
BoundaryFiftyYear(yy) == IF yy < 50 THEN 2000 + yy ELSE 1900 + yy

\* the year the raw date is read with
ReadYear(r) == IF r.yw = 2 THEN BoundaryFiftyYear(r.y) ELSE r.y

DayFirstValid(r)   == ValidDate(ReadYear(r), r.b, r.a)
MonthFirstValid(r) == ValidDate(ReadYear(r), r.a, r.b)

\* C6: a raw date a/b/yy with a two-digit year and a valid day and month
\* normalizes (variant B) to the year 20yy when yy < 50 and to 19yy when
\* yy >= 50, whichever path of _normalize_date handles it.
C6_TwoDigitYearBoundary ==
    (/\ normB # Unset
     /\ dateIn.shape = "num" /\ dateIn.yw = 2
     /\ (DayFirstValid(dateIn) \/ MonthFirstValid(dateIn)))
    => (normB # None /\ YearOf(normB) = BoundaryFiftyYear(dateIn.y))

MedicinesOfA ==
    IF outA.st = "returned" /\ "scan_info" \in DOMAIN outA.value
    THEN outA.value.medicines ELSE << >>

\* a date field that holds a value
Present(d) == d # None /\ d # << >>

\* the label "Exp: " followed by the raw date
ExpiryLabel(r) == <<"E","x","p",":"," ">> \o Render(r)

\* C1: every expiry_date and mfg_date the label extraction of either variant
\* emits with a value has exactly the form YYYY-MM-DD.
C1_EmittedDatesCanonical ==
    /\ \A k \in 1..Len(MedicinesOfA) :
         /\ Present(MedicinesOfA[k].expiry_date) => IsCanonicalDate(MedicinesOfA[k].expiry_date)
         /\ Present(MedicinesOfA[k].mfg_date) => IsCanonicalDate(MedicinesOfA[k].mfg_date)
    /\ outB.st = "returned" =>
         /\ Present(outB.value.expiry_date) => IsCanonicalDate(outB.value.expiry_date)
         /\ Present(outB.value.mfg_date) => IsCanonicalDate(outB.value.mfg_date)

\* C2: a label "Exp: D/M/YYYY" with D and M both in 1..12 gives, in either
\* variant, the expiry date with day D and month M.
C2_DayFirstDefault ==
    \A r \in LabelDates :
        (/\ r.shape = "num" /\ r.yw = 4
         /\ r.a \in 1..12 /\ r.b \in 1..12
         /\ text = ExpiryLabel(r))
        => /\ outA.st = "returned" =>
                /\ Len(MedicinesOfA) = 1
                /\ MedicinesOfA[1].expiry_date = Strftime([y |-> r.y, m |-> r.b, d |-> r.a])
           /\ outB.st = "returned" =>
                outB.value.expiry_date = Strftime([y |-> r.y, m |-> r.b, d |-> r.a])

\* the fields of two records of variant B that do not depend on the run
SameRecord(r1, r2) ==
    /\ r1.name = r2.name
    /\ r1.manufacturer = r2.manufacturer
    /\ r1.batch_no = r2.batch_no
    /\ r1.dosage = r2.dosage
    /\ r1.quantity = r2.quantity
    /\ r1.form = r2.form
    /\ r1.mfg_date = r2.mfg_date
    /\ r1.expiry_date = r2.expiry_date
    /\ r1.use_by_date = r2.use_by_date
    /\ r1.storage_instructions = r2.storage_instructions
    /\ r1.warnings = r2.warnings
    /\ r1.scan_timestamp = r2.scan_timestamp
    /\ r1.confidence = r2.confidence
    /\ r1.days_until_expiry = r2.days_until_expiry
    /\ r1.validated = r2.validated

\* C3: two runs of the label pipeline (variant B) on the same text with the
\* same clock return the same record.
C3_SameOutputTwice ==
    (prevB.st = "returned" /\ outB.st = "returned") => SameRecord(prevB.value, outB.value)

\* the result carries no medicine record, confidence 0.0 and an error marker
IsDegenerate(result) ==
    /\ "error" \in DOMAIN result
    /\ "medicines" \in DOMAIN result /\ result.medicines = << >>
    /\ "confidence" \in DOMAIN result /\ result.confidence = Float00

\* C4: neither entry point lets an exception out, and on an ocr_result that
\* is None or no dictionary each returns a result with no medicine record,
\* confidence 0.0 and an error marker.
C4_NoExceptionPropagates ==
    /\ outA.st # "raised"
    /\ outB.st # "raised"
    /\ defect \in {"None", "list"} =>
         /\ outA.st = "returned" => IsDegenerate(outA.value)
         /\ outB.st = "returned" => IsDegenerate(outB.value)

\* every data field of a record of variant B is absent
AllAbsentB(r) ==
    /\ r.name = None /\ r.manufacturer = None /\ r.batch_no = None
    /\ r.dosage = None /\ r.quantity = None /\ r.form = None
    /\ r.mfg_date = None /\ r.expiry_date = None /\ r.use_by_date = None
    /\ r.storage_instructions = None /\ r.warnings = << >>
    /\ ~r.days_until_expiry.known /\ ~r.validated

\* every data field of a record of variant A is absent
AllAbsentA(r) ==
    /\ r.name = None /\ r.dosage = None /\ r.form = None
    /\ r.manufacturer = None /\ r.batch_no = None
    /\ r.mfg_date = None /\ r.expiry_date = None
    /\ r.quantity = None /\ r.instructions = None

\* the text is empty, or the key that holds it is missing, and there is no
\* structured data beside what the empty text gives
EmptyInput == text = << >> /\ defect \in {"ok", "noText", "noData", "noKeys"}

\* C5: on an empty text with no structured data the label extraction raises
\* nothing and returns a record with every field absent and confidence 0.0:
\* variant B as its result, variant A as the one medicine of its result.
C5_EmptyTextAllAbsent ==
    EmptyInput =>
        /\ outB.st # "raised"
        /\ outB.st = "returned" =>
             AllAbsentB(outB.value) /\ outB.value.confidence = Float00
        /\ outA.st # "raised"
        /\ (outA.st = "returned" /\ scanType # None) =>
             /\ "error" \notin DOMAIN outA.value
             /\ Len(outA.value.medicines) = 1
             /\ AllAbsentA(outA.value.medicines[1])
             /\ outA.value.medicines[1].confidence = Float00

\* C7: a label "Exp: a/b/y" where neither a/b nor b/a is a day and a month of
\* the calendar gives no expiry date and no exception, in either variant.
C7_InvalidDateAbsent ==
    \A r \in LabelDates :
        (/\ r.shape = "num"
         /\ ~DayFirstValid(r) /\ ~MonthFirstValid(r)
         /\ text = ExpiryLabel(r))
        => /\ outA.st # "raised" /\ outB.st # "raised"
           /\ \A k \in 1..Len(MedicinesOfA) : ~Present(MedicinesOfA[k].expiry_date)
           /\ outB.st = "returned" => ~Present(outB.value.expiry_date)

\* C9: the selected name is a candidate with the highest score, and among
\* the candidates with that score it is the one found first in the text.
C9_MaxScoreLowestOffset ==
    (nameOut.st = "selected" /\ Len(nameOut.candidates) > 0) =>
        \E k \in 1..Len(nameOut.candidates) :
            /\ nameOut.candidates[k] = nameOut.selected
            /\ \A j \in 1..Len(nameOut.candidates) :
                 /\ nameOut.scores[j] <= nameOut.scores[k]
                 /\ nameOut.scores[j] = nameOut.scores[k] =>
                      Find(nameOut.text, nameOut.candidates[k])
                        <= Find(nameOut.text, nameOut.candidates[j])

\* C10: on a text that contains "Paracetamol 500 mg" and "Panadol", and no
\* other name of the lookup table, the selected name is "Paracetamol" and
\* its score is at least 15 (150 tenths).
C10_ParacetamolSelected ==
    (/\ nameOut.st = "selected"
     /\ Contains(text, <<"P","a","r","a","c","e","t","a","m","o","l"," ","5","0","0"," ","m","g">>)
     /\ Contains(text, <<"P","a","n","a","d","o","l">>)
     /\ \A k \in 1..Len(nameOut.candidates) :
            Lower(nameOut.candidates[k]) \in MedicineDatabase
                => Lower(nameOut.candidates[k]) = <<"p","a","r","a","c","e","t","a","m","o","l">>)
    => /\ nameOut.selected = <<"P","a","r","a","c","e","t","a","m","o","l">>
       /\ \E k \in 1..Len(nameOut.candidates) :
            nameOut.candidates[k] = nameOut.selected /\ nameOut.scores[k] >= 150

\* the lines of the prescription as they stand in the text
LinesOfText == SplitOn(text, "\n")

\* the medicine-line predicate: the line contains a dosage-unit keyword or
\* matches the frequency shape
QualifiesAsMedicineLine(line) ==
    HasDosageUnit(line) \/ Search(FrequencyShapeRe, line).ok

QualifyingLines == SelectSeq(LinesOfText, QualifiesAsMedicineLine)

\* C11: prescription extraction (variant A) returns exactly one record per
\* line that satisfies the medicine-line predicate, in the order of the lines.
C11_OneRecordPerMedicineLine ==
    rxOutA.st = "returned" =>
        /\ Len(rxOutA.value.medicines) = Len(QualifyingLines)
        /\ \A k \in 1..Len(QualifyingLines) :
              rxOutA.value.medicines[k] = MedicineOfLine(Strip(QualifyingLines[k], SpaceCs))

\* the records each variant returns for one line handed over alone
AloneA(line) == ExtractMedicines(OcrResultA(line), scanType, clock).value.medicines
AloneB(line) ==
    ExtractFromPrescription(OcrResultB(line, hashSeed), hashSeed, clock).value.medicines

Range(xs) == {xs[k] : k \in 1..Len(xs)}

\* C12: the records of a prescription are the records of its lines, each
\* extracted alone: in variant A the same records in the order of the lines,
\* in variant B the same records whatever their order.  A record therefore
\* holds nothing of another line.
C12_LineIsolation ==
    /\ rxOutA.st = "returned" =>
          rxOutA.value.medicines
            = AloneA(LinesOfText[1]) \o AloneA(LinesOfText[2]) \o AloneA(LinesOfText[3])
    /\ rxOutB.st = "returned" =>
          Range(rxOutB.value.medicines)
            = Range(AloneB(LinesOfText[1])) \cup Range(AloneB(LinesOfText[2]))
                \cup Range(AloneB(LinesOfText[3]))


\* min(1.0, 0.3*[name] + 0.2*[dosage] + 0.2*[expiry_date] + 0.1*[batch_no]
\*          + 0.1*[manufacturer] + 0.1*[text longer than 20 characters])
\* over the fields of a record, summed in this order
SignalConfidence(record, normalized_text) ==
    FloatMin(
      Float10,
      Plus_(Plus_(Plus_(Plus_(Plus_(Plus_(Float00,
        Present(record.name), Float03),
        Present(record.dosage), Float02),
        Present(record.expiry_date), Float02),
        Present(record.batch_no), Float01),
        Present(record.manufacturer), Float01),
        Len(normalized_text) > 20, Float01))

\* C13: the confidence of every emitted label record is the clamped sum of
\* the six presence signals of that record: of the record variant A emits
\* and of the record variant B emits.
C13_ConfidenceOfPresenceSignals ==
    /\ \A k \in 1..Len(MedicinesOfA) :
          MedicinesOfA[k].confidence = SignalConfidence(MedicinesOfA[k], text)
    /\ outB.st = "returned" =>
          outB.value.confidence = SignalConfidence(outB.value, CleanText(text))


\* 0 <= x <= 1
InUnitInterval(x) == ~FloatLess(x, Float00) /\ ~FloatLess(Float10, x)

\* C14: the confidence either function computes lies in [0, 1], and with
\* name, dosage, expiry date, batch number and manufacturer all present and a
\* text of more than 20 characters _calculate_confidence returns exactly 1.0.
C14_ConfidenceClamp ==
    /\ confA.st = "returned" => InUnitInterval(confA.value)
    /\ confB.st = "returned" => InUnitInterval(confB.value)
    /\ (/\ confA.st = "returned"
        /\ Present(sdIn.medicine_name) /\ Present(sdIn.dosage)
        /\ Present(sdIn.expiry_date) /\ Present(sdIn.batch_number)
        /\ Present(sdIn.manufacturer) /\ Len(text) > 20)
       => confA.value = Float10


\* the hours from the instant to 00:00 of the canonical date s, negative when
\* that midnight is past
HoursUntil(s, instant) ==
    (ToOrdinal(YearOf(s), MonthOf(s), DayOf(s))
        - ToOrdinal(instant.y, instant.m, instant.d)) * 24 - instant.hour

\* s is a canonical date string that names a day of the calendar
IsCalendarDate(s) == IsCanonicalDate(s) /\ ValidDate(YearOf(s), MonthOf(s), DayOf(s))

\* days is the whole number of days from the instant to 00:00 of s: that many
\* full days fit and one more does not, and it is negative exactly when the
\* midnight is past
IsWholeDayDifference(days, s, instant) ==
    /\ days.known
    /\ days.days * 24 <= HoursUntil(s, instant)
    /\ HoursUntil(s, instant) < (days.days + 1) * 24
    /\ (days.days < 0) <=> (HoursUntil(s, instant) < 0)

\* C15: the days_until_expiry computed at an instant for a canonical expiry
\* date, by _calculate_days_until_expiry and by _add_calculated_fields, is the
\* signed whole-day difference between the instant and 00:00 of the expiry
\* date, negative exactly when that midnight is already past, at every hour of
\* the day.
C15_SignedWholeDays ==
    IsCalendarDate(expIn) =>
        /\ daysB # NotRun => IsWholeDayDifference(daysB.value, expIn, clock)
        /\ daysDb # NotRun =>
              IsWholeDayDifference(daysDb.value.days_until_expiry, expIn, clock)

\* both functions were asked one hour after the midnight of the expiry date
C15_Witness ==
    /\ expIn = <<"2","0","2","5","-","0","3","-","0","5">>
    /\ clock = At(2025, 3, 5, 1)
    /\ daysB = Returned(KnownDays(-1))
    /\ daysDb # NotRun
    /\ daysDb.value.days_until_expiry = KnownDays(-1)
    /\ daysDb.value.expiry_status = "expired"

\* days is what the expiry date and the instant give: the whole-day difference
\* for a date, no value for an absent or unparseable one
IsDerived(days, expiry_date, instant) ==
    IF IsCalendarDate(expiry_date) THEN IsWholeDayDifference(days, expiry_date, instant)
    ELSE ~days.known

\* C16: whatever was saved and however far the clock has moved, every record
\* load_medicines returns carries the days_until_expiry that its expiry_date
\* and the clock of that read give (None for an absent or unparseable date),
\* whatever days_until_expiry the saved record or the file holds.
C16_DaysRecomputedOnRead ==
    loaded # NotRun =>
        \A k \in DOMAIN loaded.value :
            IsDerived(loaded.value[k].days_until_expiry, loaded.value[k].expiry_date,
                      loaded.at)

\* a record of the file holds the day count its caller left in it, and the
\* read at the last instant of the timeline returned the same record with
\* the day count of that instant
C16_Witness ==
    /\ loaded # NotRun
    /\ loaded.at = Timeline[Len(Timeline)]
    /\ \E k \in DOMAIN stored :
          /\ k \in DOMAIN loaded.value
          /\ stored[k].id = loaded.value[k].id
          /\ stored[k].expiry_date = <<"2","0","2","5","-","0","3","-","0","5">>
          /\ stored[k].days_until_expiry = KnownDays(999)
          /\ loaded.value[k].days_until_expiry = KnownDays(-37)

\* every match of the date patterns in the text, with its position
RECURSIVE MatchesOfPatterns(_, _, _)
MatchesOfPatterns(pats, k, s) ==
    IF k > Len(pats) THEN << >>
    ELSE FindIter(pats[k], s, 0) \o MatchesOfPatterns(pats, k + 1, s)

\* the text within 20 characters of the date a match captured, in lower case
OwnWindow(s, m) ==
    Lower(Slice(s, IF m.caps[1][1] > ContextWidth THEN m.caps[1][1] - ContextWidth ELSE 0,
                m.caps[1][2] + ContextWidth))

\* the class a window gives: expiry before manufacturing before other
ClassOfWindow(window) ==
    IF \E w \in ExpiryWords : Contains(window, w) THEN "expiry"
    ELSE IF \E w \in MfgWords : Contains(window, w) THEN "manufacturing"
    ELSE "other"

OwnClass(s, m) == ClassOfWindow(OwnWindow(s, m))

\* the same date string is matched at one place whose window holds an expiry
\* word and at another whose window holds a manufacturing word and no expiry
\* word
InBothContexts(s, matches, date) ==
    /\ \E i \in DOMAIN matches :
          Group(s, matches[i], 1) = date /\ OwnClass(s, matches[i]) = "expiry"
    /\ \E j \in DOMAIN matches :
          Group(s, matches[j], 1) = date /\ OwnClass(s, matches[j]) = "manufacturing"

InBothBucketsWhenInBothContexts(s, matches, dates) ==
    \A i \in DOMAIN matches :
        InBothContexts(s, matches, Group(s, matches[i], 1)) =>
            /\ Group(s, matches[i], 1) \in Range(dates.expiry)
            /\ Group(s, matches[i], 1) \in Range(dates.manufacturing)

\* C17: a date string that stands at two places of the text, near an expiry
\* word at one and near a manufacturing word (and no expiry word) at the
\* other, is in the expiry list and in the manufacturing list of
\* extract_dates.
C17_SameDateInBothBuckets ==
    datesOut # NotRun =>
        InBothBucketsWhenInBothContexts(text, MatchesOfPatterns(DatePatterns, 1, text),
                                        datesOut.value)

\* the lists of extract_dates hold the date of every match under the class
\* of the match's own window, and nothing else
ClassifiedByOwnWindow(s, matches, dates) ==
    /\ \A i \in DOMAIN matches :
          Group(s, matches[i], 1) \in Range(dates[OwnClass(s, matches[i])])
    /\ \A class \in {"expiry", "manufacturing", "other"} :
          \A k \in DOMAIN dates[class] :
              \E i \in DOMAIN matches :
                  /\ Group(s, matches[i], 1) = dates[class][k]
                  /\ OwnClass(s, matches[i]) = class

\* C18: extract_dates classifies every date match from the 20 characters
\* before and after that match's own position, without regard to case:
\* expiry when an expiry word is there, else manufacturing when a
\* manufacturing word is there, else other; the match is in that list and in
\* no list its window does not give.
C18_ClassifiedByOwnWindow ==
    datesOut # NotRun =>
        ClassifiedByOwnWindow(text, MatchesOfPatterns(DatePatterns, 1, text),
                              datesOut.value)

\* the dosage contains 'mg', in any case
HasMg(dosage) == Contains(Lower(dosage), <<"m","g">>)

\* the match stands first in the text among the matches
IsFirstInText(matches, i) == \A j \in DOMAIN matches : matches[i].st <= matches[j].st

\* the selection a list of matches calls for
IsPreferredDosage(s, matches, primary) ==
    IF Len(matches) = 0 THEN primary = None
    ELSE IF \E i \in DOMAIN matches : HasMg(Group0(s, matches[i]))
         THEN primary # None /\ HasMg(primary)
         ELSE \E i \in DOMAIN matches :
                 IsFirstInText(matches, i) /\ primary = Group0(s, matches[i])

\* C19: of the dosages extract_dosages detects, _extract_primary_dosage
\* selects one that contains 'mg' when any does; otherwise the one that
\* stands first in the text; and none when none was detected.
C19_DosageSelection ==
    doseOut # NotRun =>
        IsPreferredDosage(text, MatchesOfPatterns(DosagePatterns, 1, text),
                          doseOut.value.primary)

\* the runs of characters of s between the characters of seps, empty runs
\* left out
RECURSIVE Tokens(_, _, _)
Tokens(s, seps, run) ==
    IF Len(s) = 0 THEN (IF Len(run) = 0 THEN << >> ELSE << run >>)
    ELSE IF s[1] \in seps
         THEN (IF Len(run) = 0 THEN << >> ELSE << run >>) \o Tokens(Tail(s), seps, << >>)
         ELSE Tokens(Tail(s), seps, Append(run, s[1]))

\* the token has the shape digits, - or /, digits, - or /, digits
HasDateShape(token) ==
    \E i, j \in DOMAIN token :
        /\ 1 < i /\ i + 1 < j /\ j < Len(token)
        /\ token[i] \in {"-", "/"} /\ token[j] \in {"-", "/"}
        /\ \A k \in DOMAIN token : k \notin {i, j} => token[k] \in DigitCs

AllDigits(token) == Len(token) > 0 /\ \A k \in DOMAIN token : token[k] \in DigitCs

\* the substitution table: 0 to O, 1 to I, | to I, the section sign to S
Substitute(c) ==
    CASE c = "0" -> "O"
      [] c = "1" -> "I"
      [] c = "|" -> "I"
      [] c = SectionSign -> "S"
      [] OTHER -> c

\* the token as the cleaning should leave it
Cleaned(token) ==
    IF HasDateShape(token) \/ AllDigits(token) THEN token
    ELSE [k \in DOMAIN token |-> Substitute(token[k])]

CleanedTokens(tokens) == [k \in DOMAIN tokens |-> Cleaned(tokens[k])]

\* C20: clean_text returns the tokens of its input, as many and in the same
\* order, with single spaces between them; a token of the date shape
\* digits[-/]digits[-/]digits or of digits only is unchanged, and in every
\* other token 0, 1, | and the section sign have become O, I, I and S and
\* nothing else has changed.
C20_CleanTextTokens ==
    cleanOut # NotRun =>
        cleanOut.value = JoinSp(CleanedTokens(Tokens(text, SpaceCs, << >>)))

GuardedOperations ==
    {"create_reminder", "mark_taken", "mark_missed", "disable_reminder",
     "delete_reminder", "update_reminder"}

\* C21: create_reminder with all required fields, and mark_taken,
\* mark_missed, disable_reminder, delete_reminder and update_reminder for an
\* existing id, called by one thread while the lock is free, come to an end
\* and return True, with the change in the reminder list and in the file.
C21_ReminderCallReturnsTrue ==
    (callA.op \in GuardedOperations /\ callA.applies) =>
        /\ callA.at # "blocked"
        /\ callA.at = "returned" =>
              callA.ret = "True" /\ fileA = Files(remA, histA)

IsListedName(name, medicine_database) ==
    /\ name # None
    /\ \E key \in medicine_database :
          /\ Len(key) = Len(name)
          /\ \A k \in DOMAIN key : key[k] = LowerChar(name[k])

\* C23: the record of extract_from_label has validated = true exactly when a
\* name was extracted and its lower-case form is a key of the medicine lookup
\* table; without a name validated is false.
C23_ValidatedIffListed ==
    outB.st = "returned" =>
        (outB.value.validated <=> IsListedName(outB.value.name, lexicons.medicine_database))

\* a label whose name is written with a capital letter was validated
C23_Witness ==
    /\ outB.st = "returned"
    /\ outB.value.name = <<"P","a","r","a","c","e","t","a","m","o","l">>
    /\ outB.value.validated


\* the threads of _speak_sync that are inside engine.say / engine.runAndWait
UsingEngine == {k \in 1..Len(speech) : speech[k] = "engine"}

\* C24: a speak call with a text and priority "high", made while is_speaking
\* is true, does not wait for ever and returns True; one with another
\* priority, made while is_speaking is true, returns False
C24_HighPriorityInterrupts ==
    (callV.op = "speak" /\ callV.text # << >> /\ callV.wasSpeaking) =>
        IF callV.priority = "high"
        THEN callV.at # "blocked" /\ (callV.at = "returned" => callV.ret = "True")
        ELSE callV.at = "returned" /\ callV.ret = "False"

\* C28: is_speaking is true whenever a _speak_sync is running the engine, and
\* at most one _speak_sync runs the engine at a time
C28_OneSpeechAtATime ==
    /\ (UsingEngine # {} => isSpeaking)
    /\ Cardinality(UsingEngine) <= 1


\* C26: a check_due_reminders call does not return an occurrence of a
\* reminder that an earlier call has returned, nor the one the call just
\* before it returned
C26_OccurrenceDueOnce ==
    \A e \in Occurrences(dueB) :
        /\ e \notin returnedB
        /\ \A k \in 1..Len(remB) : remB[k].id = e.id => IsAfter(remB[k].next_reminder, e.occurrence)

\* the times of day of a reminder of several times a day
ListedTimes(reminder_type, t) ==
    IF reminder_type = <<"T","w","i","c","e"," ","D","a","i","l","y">> THEN {t, (t + 12 * 60) % MinutesPerDay}
    ELSE {t, (t + 8 * 60) % MinutesPerDay, (t + 16 * 60) % MinutesPerDay}
\* the moments of today and tomorrow at the listed times that are after now
ListedAfter(reminder_type, t, now) ==
    {m \in {Moment(d, x) : d \in {now.day, now.day + 1}, x \in ListedTimes(reminder_type, t)} :
        IsAfter(m, now)}
IsEarliest(m, moments) == m \in moments /\ \A other \in moments : ~IsAfter(m, other)

\* C27: for "Twice Daily" and "Three Times Daily" the result of
\* _calculate_next_reminder is the earliest moment after now at one of the
\* listed times of day
C27_NextIsEarliestListed ==
    (nextB # NotRun /\ nextB.reminder_type \in { <<"T","w","i","c","e"," ","D","a","i","l","y">>, <<"T","h","r","e","e"," ","T","i","m","e","s"," ","D","a","i","l","y">> }) =>
        IsEarliest(nextB.value, ListedAfter(nextB.reminder_type, nextB.reminder_time, nextB.now))


\* the alerts returned for the reminder of the medicine
AlertsOf(id) == SelectSeq(alertsOut.value, LAMBDA a : a.reminder_id = id)
\* the day count agrees with the alert, and so does "expired"
AgreesWithAlert(days, alert) ==
    /\ days = KnownDays(alert.days_until_expiry)
    /\ (ExpiryStatus(days) = "expired") <=> (alert.days_until_expiry < 0)

\* C29: where get_expiry_alerts reports a medicine, the day counts of
\* _add_calculated_fields and of _calculate_days_until_expiry for the same
\* expiry_date and instant equal its days_until_expiry, and the medicine is
\* expired for the database just when the alert's count is negative
C29_SameDayCount ==
    (alertsOut # NotRun /\ Len(AlertsOf(<<"a">>)) > 0) =>
        /\ (daysDb # NotRun => AgreesWithAlert(daysDb.value.days_until_expiry, AlertsOf(<<"a">>)[1]))
        /\ (daysB # NotRun => AgreesWithAlert(daysB.value, AlertsOf(<<"a">>)[1]))


\* the entries of a list
EntriesOf(entries) == {entries[k] : k \in 1..Len(entries)}

\* C25: the scan history file holds no more entries than save_scan_history
\* keeps; the entry a save_scan_history has just written is in the file; and
\* no entry the last save cut off is newer than an entry of the file
C25_LatestEntriesKept ==
    /\ Len(scanFile) <= KeptEntries
    /\ (scanOut # NotRun /\ scanOut.op = "save_scan_history") =>
           \E e \in EntriesOf(scanFile) : e.id = scanOut.value
    /\ \A d \in EntriesOf(scanDropped), e \in EntriesOf(scanFile) :
           ~IsAfter(d.timestamp, e.timestamp)


\* the ids of the records of a file, one for each record
IdsOf(file) == [k \in DOMAIN file |-> file[k].id]
PairwiseDistinct(ids) == \A j, k \in DOMAIN ids : j # k => ids[j] # ids[k]
\* the last call was a save_medicine of a record whose id was in the file
SavedOverStored ==
    /\ storeCall.op = "save_medicine"
    /\ FirstWithId(storeCall.before, storeCall.id) # 0
\* the records but the one at a position, as load_medicines reads them at
\* the instant of the call
OthersRead(file, position) ==
    [k \in DOMAIN file \ {position} |-> AddCalculatedFields(file[k], storeCall.instant)]

=============================================================================
